---- MODULE Spec2Model ----
(***************************************************************************)
(* The subtraceaggregator processor (processor/subtraceaggregator):        *)
(* the trace buffer (buffer.go), ConsumeTraces / flushLoop / Shutdown /     *)
(* flushTrace and the subtrace assigner (processor.go).                     *)
(*                                                                         *)
(* Three specifications share the module:                                   *)
(*   SpecRule    shouldStartNewSubtrace applied to every pair of entries    *)
(*   SpecAssign  assignSubtraces applied to every bounded trace state       *)
(*   Spec        the running processor: a ConsumeTraces caller, the         *)
(*               flushLoop goroutine, the Shutdown caller, the downstream   *)
(***************************************************************************)
EXTENDS Integers, Sequences, FiniteSets, TLC

VARIABLES
    phase,      \* which specification runs; in the pure ones: input drawn / function applied
    inp,        \* pure specifications: the input drawn in Init
    out,        \* pure specifications: the result of the function applied
    buffer,     \* Buffer.traces: trace id -> TraceState, or NoTrace
    now,        \* the wall clock read by time.Now()
    nextTok,    \* number of span entries inserted so far (tok names each entry)
    proc,       \* the ConsumeTraces caller, the flushLoop goroutine, the Shutdown caller
    fwd,        \* downstream: how many ConsumeTraces calls carried each span entry
    lastBatch,  \* downstream: the batch of its most recent ConsumeTraces call
    dsErred,    \* the trace ids whose flush got an error from downstream
    crashed,    \* the process died (fatal goroutine stack overflow)
    cfg         \* Config: error_mode

pvars == <<inp, out>>
mvars == <<buffer, now, nextTok, proc, fwd, lastBatch, dsErred, crashed, cfg>>
vars == <<phase, inp, out, buffer, now, nextTok, proc, fwd, lastBatch, dsErred, crashed, cfg>>

\* the value of the running processor's variables in the pure specifications
Idle ==
    /\ buffer = <<>> /\ now = 0 /\ nextTok = 0 /\ proc = <<>> /\ fwd = <<>>
    /\ lastBatch = <<>> /\ dsErred = {} /\ crashed = FALSE /\ cfg = <<>>

----------------------------------------------------------------------------
(* Span entries                                                             *)

\* ptrace.SpanKind
SpanKinds == {"UNSPECIFIED", "INTERNAL", "SERVER", "CLIENT", "PRODUCER", "CONSUMER"}

\* pcommon.SpanID: 0 is the empty (all-zero) id, IsEmpty() holds of it alone
EmptyID == 0

\* Attribute values: <<>> for an attribute the span does not carry, <<v>> for
\* one it carries with value v
NoAttr == <<>>
Attr(v) == <<v>>

\* SpanEntry: the copied span (id, parent id, kind, start timestamp, the two
\* attributes the processor writes) with its precomputed resource hash; tok
\* names the entry itself (two entries may be equal in every other field)
Entry(tok, id, parent, kind, res, ts, sid, isRoot) ==
    [tok |-> tok, id |-> id, parent |-> parent, kind |-> kind, res |-> res,
     ts |-> ts, sid |-> sid, isRoot |-> isRoot]

----------------------------------------------------------------------------
(* The boundary rule                                                        *)

\* the mutants of shouldStartNewSubtrace used by the claims' checks
shouldStartNewSubtrace_NoConsumer(parent, child) ==
    IF parent.res # child.res
      THEN TRUE
      ELSE LET childKind == IF child.kind = "UNSPECIFIED" THEN "INTERNAL" ELSE child.kind
               parentKind == IF parent.kind = "UNSPECIFIED" THEN "INTERNAL" ELSE parent.kind
               isChildEntryPoint == childKind = "SERVER"
               isParentEntryPoint == parentKind = "SERVER" \/ parentKind = "CONSUMER"
           IN  isChildEntryPoint /\ ~isParentEntryPoint

shouldStartNewSubtrace_NoResource(parent, child) ==
    LET childKind == IF child.kind = "UNSPECIFIED" THEN "INTERNAL" ELSE child.kind
        parentKind == IF parent.kind = "UNSPECIFIED" THEN "INTERNAL" ELSE parent.kind
        isChildEntryPoint == childKind = "SERVER" \/ childKind = "CONSUMER"
        isParentEntryPoint == parentKind = "SERVER" \/ parentKind = "CONSUMER"
    IN  isChildEntryPoint /\ ~isParentEntryPoint

shouldStartNewSubtrace_AnyEntry(parent, child) ==
    IF parent.res # child.res
      THEN TRUE
      ELSE LET childKind == IF child.kind = "UNSPECIFIED" THEN "INTERNAL" ELSE child.kind
           IN  childKind = "SERVER" \/ childKind = "CONSUMER"

\* processor.go shouldStartNewSubtrace
shouldStartNewSubtrace(parent, child) ==
    IF parent.res # child.res
      THEN TRUE
      ELSE LET childKind == IF child.kind = "UNSPECIFIED" THEN "INTERNAL" ELSE child.kind
               parentKind == IF parent.kind = "UNSPECIFIED" THEN "INTERNAL" ELSE parent.kind
               isChildEntryPoint == childKind = "SERVER" \/ childKind = "CONSUMER"
               isParentEntryPoint == parentKind = "SERVER" \/ parentKind = "CONSUMER"
           IN  isChildEntryPoint /\ ~isParentEntryPoint

----------------------------------------------------------------------------
(* The subtrace assigner                                                    *)

\* a mutant of generateSubtraceID: only the parity of the counter is hashed
generateSubtraceID_CounterParity(traceID, counter) == <<traceID, counter % 2>>

\* a mutant of generateSubtraceID: the counter is left out of the digest
generateSubtraceID_NoCounter(traceID, counter) == <<traceID, 0>>

\* generateSubtraceID: the first 8 bytes of SHA-256("<trace id>:<counter>"),
\* taken as collision-free: the pair itself stands for its digest
generateSubtraceID(traceID, counter) == <<traceID, counter>>

\* a span id without an entry in subtraceAssignment
Unassigned == <<>>

\* spanByID[x]: the loop at processor.go:184 overwrites, so the LAST entry
\* carrying id x wins; 0 when no entry carries it
spanByID(spans, x) ==
    LET S == {i \in DOMAIN spans : spans[i].id = x}
    IN  IF S = {} THEN 0 ELSE CHOOSE i \in S : \A j \in S : j <= i

IDsOf(spans) == {spans[i].id : i \in DOMAIN spans}

\* a mutant of assignSpan: no call on the parent; a parent not yet assigned
\* is taken as missing
assignSpan_ParentIfAssigned(spans, traceID, i, st, depth) ==
    LET span == spans[i]
        p == spanByID(spans, span.parent)
        fresh == [st EXCEPT !.asg[span.id] = generateSubtraceID(traceID, st.ctr),
                            !.ctr = st.ctr + 1,
                            !.ret = generateSubtraceID(traceID, st.ctr)]
    IN  IF st.asg[span.id] # Unassigned THEN [st EXCEPT !.ret = st.asg[span.id]]
        ELSE IF p = 0 \/ span.parent = EmptyID THEN fresh
        ELSE IF st.asg[span.parent] = Unassigned THEN fresh
        ELSE IF shouldStartNewSubtrace(spans[p], span) THEN fresh
        ELSE [st EXCEPT !.asg[span.id] = st.asg[span.parent], !.ret = st.asg[span.parent]]

\* The closure assignSpan, with the maps it captures passed as st:
\*   st.asg  subtraceAssignment     st.ctr  *subtraceCounter
\*   st.ret  the value returned     st.ok   FALSE once the recursion cannot end
\* A call that finds its id unassigned assigns it only after the call on the
\* parent has returned, so a nest of more than Len(spans)+1 unreturned calls
\* repeats an entry with the maps unchanged and never returns: depth counts
\* the calls that may still nest.
RECURSIVE assignSpan(_, _, _, _, _)
assignSpan(spans, traceID, i, st, depth) ==
    LET span == spans[i]
        fresh(s) == [s EXCEPT !.asg[span.id] = generateSubtraceID(traceID, s.ctr),
                              !.ctr = s.ctr + 1,
                              !.ret = generateSubtraceID(traceID, s.ctr)]
    IN  IF ~st.ok THEN st
        ELSE IF st.asg[span.id] # Unassigned THEN [st EXCEPT !.ret = st.asg[span.id]]
        ELSE IF depth = 0 THEN [st EXCEPT !.ok = FALSE]
        ELSE LET p == spanByID(spans, span.parent)
             IN  IF p = 0 \/ span.parent = EmptyID
                   THEN fresh(st)
                   ELSE LET st1 == assignSpan(spans, traceID, p, st, depth - 1)
                        IN  IF ~st1.ok THEN st1
                            ELSE IF shouldStartNewSubtrace(spans[p], span)
                              THEN fresh(st1)
                              ELSE [st1 EXCEPT !.asg[span.id] = st1.ret]

\* the loop "for i := range spans { assignSpan(&spans[i]) }"
RECURSIVE assignAll(_, _, _, _)
assignAll(spans, traceID, i, st) ==
    IF i > Len(spans) \/ ~st.ok THEN st
    ELSE assignAll(spans, traceID, i + 1,
                   assignSpan(spans, traceID, i, st, Len(spans) + 1))

\* SubtraceState; RootSpan is an index into Spans, 0 for nil
SubtraceState(spans, subtraceID, traceID, firstSeen) ==
    [Spans |-> spans, RootSpan |-> 0, SubtraceID |-> subtraceID,
     TraceID |-> traceID, FirstSeen |-> firstSeen]

\* a mutant of assignSubtraces: the grouping loop puts each span in front of
\* the spans its subtrace already has
assignSubtraces_Prepend(traceState, traceID) ==
    LET spans == traceState.Spans
        st0 == [asg |-> [x \in IDsOf(spans) |-> Unassigned], ctr |-> 0,
                ret |-> Unassigned, ok |-> TRUE]
        st == assignAll(spans, traceID, 1, st0)
        ids == {st.asg[spans[i].id] : i \in DOMAIN spans}
        backwards == [i \in DOMAIN spans |-> spans[Len(spans) + 1 - i]]
        group(s) == SelectSeq(backwards, LAMBDA e : st.asg[e.id] = s)
    IN  IF Len(spans) = 0 THEN [overflow |-> FALSE, subtraces |-> {}]
        ELSE IF ~st.ok THEN [overflow |-> TRUE, subtraces |-> {}]
        ELSE [overflow |-> FALSE,
              subtraces |-> {SubtraceState(group(s), s, traceID, traceState.FirstSeen)
                             : s \in ids}]

\* processor.go assignSubtraces.  The result slice is filled by ranging over a
\* Go map, so its order is not fixed: the result is the set of subtrace
\* states.  overflow: the recursion of assignSpan never returns (the
\* goroutine stack grows until the runtime kills the process).
assignSubtraces(traceState, traceID) ==
    LET spans == traceState.Spans
        st0 == [asg |-> [x \in IDsOf(spans) |-> Unassigned], ctr |-> 0,
                ret |-> Unassigned, ok |-> TRUE]
        st == assignAll(spans, traceID, 1, st0)
        ids == {st.asg[spans[i].id] : i \in DOMAIN spans}
        group(s) == SelectSeq(spans, LAMBDA e : st.asg[e.id] = s)
    IN  IF Len(spans) = 0 THEN [overflow |-> FALSE, subtraces |-> {}]
        ELSE IF ~st.ok THEN [overflow |-> TRUE, subtraces |-> {}]
        ELSE [overflow |-> FALSE,
              subtraces |-> {SubtraceState(group(s), s, traceID, traceState.FirstSeen)
                             : s \in ids}]

\* a mutant of earliestOf: "<=" for "<", so the last of the earliest wins
RECURSIVE earliestOf_LastOfTies(_, _, _, _)
earliestOf_LastOfTies(spans, idxs, k, earliest) ==
    IF k > Len(idxs) THEN earliest
    ELSE earliestOf_LastOfTies(spans, idxs, k + 1,
                    IF spans[idxs[k]].ts <= spans[earliest].ts THEN idxs[k] ELSE earliest)

\* the scan "if ts(idx) < ts(earliest) { earliest = idx }" over the indices
\* idxs, starting from earliest
RECURSIVE earliestOf(_, _, _, _)
earliestOf(spans, idxs, k, earliest) ==
    IF k > Len(idxs) THEN earliest
    ELSE earliestOf(spans, idxs, k + 1,
                    IF spans[idxs[k]].ts < spans[earliest].ts THEN idxs[k] ELSE earliest)

\* the indices 1..n in order
RECURSIVE upTo(_)
upTo(n) == IF n = 0 THEN <<>> ELSE Append(upTo(n - 1), n)

\* a mutant of determineRootSpan: the first entry is taken as the root
determineRootSpan_FirstSpan(state) ==
    IF Len(state.Spans) = 0 THEN state ELSE [state EXCEPT !.RootSpan = 1]

\* processor.go determineRootSpan
determineRootSpan(state) ==
    LET spans == state.Spans
        spanIDs == IDsOf(spans)
        isCand(i) == spans[i].parent = EmptyID \/ spans[i].parent \notin spanIDs
        candidates == SelectSeq(upTo(Len(spans)), isCand)
    IN  IF Len(spans) = 0 THEN state
        ELSE IF Len(candidates) = 0
          THEN [state EXCEPT !.RootSpan = earliestOf(spans, upTo(Len(spans)), 1, 1)]
        ELSE IF Len(candidates) = 1
          THEN [state EXCEPT !.RootSpan = candidates[1]]
        ELSE [state EXCEPT !.RootSpan = earliestOf(spans, Tail(candidates), 1, candidates[1])]

\* a mutant of labelSpans: subtrace.id is written only where it is missing
labelSpans_KeepExistingID(state) ==
    [state EXCEPT !.Spans =
        [i \in DOMAIN state.Spans |->
            [state.Spans[i] EXCEPT
                !.sid = IF @ = NoAttr THEN Attr(state.SubtraceID) ELSE @,
                !.isRoot = IF state.RootSpan # 0 /\ i = state.RootSpan THEN Attr(TRUE) ELSE @]]]

\* flushTrace, processor.go:143-149: PutStr("subtrace.id") on every entry,
\* PutBool("subtrace.is_root_span", true) on the root entry alone
labelSpans(state) ==
    [state EXCEPT !.Spans =
        [i \in DOMAIN state.Spans |->
            [state.Spans[i] EXCEPT
                !.sid = Attr(state.SubtraceID),
                !.isRoot = IF state.RootSpan # 0 /\ i = state.RootSpan THEN Attr(TRUE) ELSE @]]]

\* flushTrace, processor.go:137-165, for a trace state taken from the buffer:
\* the labelled subtrace states, each to be forwarded as one batch.  The rule
\* lists are empty (createDefaultConfig), so Aggregator.Apply writes nothing.
flushBatches(traceState, traceID) ==
    LET r == assignSubtraces(traceState, traceID)
    IN  [overflow |-> r.overflow,
         batches |-> {labelSpans(determineRootSpan(s)) : s \in r.subtraces}]

----------------------------------------------------------------------------
(* SpecRule: shouldStartNewSubtrace on every pair of kinds and resources    *)

RuleRes == {"res1", "res2"}

RuleInit ==
    /\ phase = "rule-input"
    /\ \E pk \in SpanKinds, ck \in SpanKinds, pr \in RuleRes, cr \in RuleRes :
          inp = [parent |-> Entry(1, 1, EmptyID, pk, pr, 0, NoAttr, NoAttr),
                 child |-> Entry(2, 2, 1, ck, cr, 0, NoAttr, NoAttr)]
    /\ out = Unassigned
    /\ Idle

ApplyRule ==
    /\ phase = "rule-input"
    /\ phase' = "rule-done"
    /\ out' = shouldStartNewSubtrace(inp.parent, inp.child)
    /\ UNCHANGED <<inp, mvars>>

RuleNext == ApplyRule

SpecRule == RuleInit /\ [][RuleNext]_vars

----------------------------------------------------------------------------
(* SpecAssign: assignSubtraces on every trace state of at most MaxLen       *)
(* entries, in every arrival order                                          *)

MaxLen == 3
AssignIDs == {1, 2, 3}
AssignParents == {EmptyID, 1, 2, 3}
AssignKinds == {"SERVER", "CLIENT"}
AssignRes == {"resA", "resB"}
AssignTraceID == 1

\* Span ids are only compared for equality, so every trace is a renaming of
\* one whose entries introduce the ids 1, 2, 3 in this order; a parent id
\* carried by no entry names a span missing from the trace.  Resource hashes
\* are only compared for equality too: the first entry's is resA.
AssignIDSeqs(n) ==
    {f \in [1..n -> AssignIDs] :
        \A i \in 1..n : \A x \in 1..(f[i] - 1) : \E j \in 1..(i - 1) : f[j] = x}

AssignShape == [parent : AssignParents, kind : AssignKinds, res : AssignRes]

AssignInit ==
    /\ phase = "assign-input"
    /\ \E n \in 1..MaxLen : \E ids \in AssignIDSeqs(n) : \E f \in [1..n -> AssignShape] :
          /\ f[1].res = "resA"
          /\ inp = [i \in 1..n |->
                    Entry(i, ids[i], f[i].parent, f[i].kind, f[i].res, 0, NoAttr, NoAttr)]
    /\ out = Unassigned
    /\ Idle

Assign ==
    /\ phase = "assign-input"
    /\ phase' = "assign-done"
    /\ out' = assignSubtraces([Spans |-> inp, FirstSeen |-> 0], AssignTraceID)
    /\ UNCHANGED <<inp, mvars>>

AssignNext == Assign

SpecAssign == AssignInit /\ [][AssignNext]_vars

----------------------------------------------------------------------------
(* Claims about the boundary rule (SpecRule)                                *)

EntryPointKinds == {"SERVER", "CONSUMER"}

\* C10: for every parent kind, child kind and same/different resource hash,
\* shouldStartNewSubtrace is true iff the resource hashes differ or the child
\* kind is SERVER or CONSUMER and the parent kind is neither (UNSPECIFIED has
\* no row of its own: it behaves as INTERNAL, a non-entry-point kind).
C10_BoundaryRuleTruthTable ==
    phase = "rule-done" =>
        out = (\/ inp.parent.res # inp.child.res
               \/ /\ inp.child.kind \in EntryPointKinds
                  /\ inp.parent.kind \notin EntryPointKinds)

C10_Witness ==
    /\ phase = "rule-done"
    /\ inp.parent.kind = "UNSPECIFIED" /\ inp.child.kind = "CONSUMER"
    /\ inp.parent.res = inp.child.res
    /\ out = TRUE

----------------------------------------------------------------------------
(* Claims about assignSubtraces (SpecAssign)                                *)

ToksOf(spans) == {spans[i].tok : i \in DOMAIN spans}

\* the subtraces of a result that hold the entry named tok
HoldersOf(subtraces, tok) == {s \in subtraces : tok \in ToksOf(s.Spans)}

Partitioned(subtraces, spans) ==
    /\ \A i \in DOMAIN spans : Cardinality(HoldersOf(subtraces, spans[i].tok)) = 1
    /\ \A s \in subtraces :
          /\ \A k \in DOMAIN s.Spans : \E i \in DOMAIN spans : s.Spans[k] = spans[i]
          /\ \A k, l \in DOMAIN s.Spans : k # l => s.Spans[k].tok # s.Spans[l].tok

DistinctSpanIDs(spans) == \A i, j \in DOMAIN spans : i # j => spans[i].id # spans[j].id

\* C1: for every trace state handed to assignSubtraces, whatever its
\* parent/child shape and arrival order, assignSubtraces returns, every entry
\* is in exactly one returned subtrace and the subtraces hold nothing else.
C1_Partition ==
    phase = "assign-done" => ~out.overflow /\ Partitioned(out.subtraces, inp)

\* what the code does give: whenever assignSubtraces returns, its result is a
\* partition of the entries
PartitionWhenReturned ==
    phase = "assign-done" /\ ~out.overflow => Partitioned(out.subtraces, inp)

SameIDSameResource(spans) ==
    \A i, j \in DOMAIN spans : spans[i].id = spans[j].id => spans[i].res = spans[j].res

IsParentOf(spans, j, i) == spans[i].parent # EmptyID /\ spans[j].id = spans[i].parent

MustCut(parent, child) ==
    \/ parent.res # child.res
    \/ child.kind \in EntryPointKinds /\ parent.kind \notin EntryPointKinds

\* C9 as stated: for every span whose parent is present in the trace, span and
\* parent are in different subtraces iff their resource hashes differ or the
\* child is SERVER/CONSUMER and the parent is not, whatever the arrival order.
C9_EntryPointCut ==
    phase = "assign-done" /\ ~out.overflow =>
        \A i, j \in DOMAIN inp : IsParentOf(inp, j, i) =>
            ((HoldersOf(out.subtraces, inp[i].tok) # HoldersOf(out.subtraces, inp[j].tok))
                <=> MustCut(inp[j], inp[i]))

\* entries that share a span id are copies of one span: same parent id, kind
\* and resource hash
SameIDSameSpan(spans) ==
    \A i, j \in DOMAIN spans : spans[i].id = spans[j].id =>
        /\ spans[i].parent = spans[j].parent
        /\ spans[i].kind = spans[j].kind
        /\ spans[i].res = spans[j].res

\* C9 as amended: the same, for traces in which the entries that share a span
\* id agree on parent id, kind and resource hash (so for every trace with
\* pairwise distinct span ids).
C9_EntryPointCut_ConsistentIDs ==
    phase = "assign-done" /\ ~out.overflow /\ SameIDSameSpan(inp) =>
        \A i, j \in DOMAIN inp : IsParentOf(inp, j, i) =>
            ((HoldersOf(out.subtraces, inp[i].tok) # HoldersOf(out.subtraces, inp[j].tok))
                <=> MustCut(inp[j], inp[i]))

\* a SERVER child that arrived before its CLIENT parent of the same resource
\* is cut off, and a grandchild stays with the child
C9_Witness ==
    /\ phase = "assign-done" /\ ~out.overflow /\ DistinctSpanIDs(inp)
    /\ \E i, j, k \in DOMAIN inp :
          /\ i < j /\ IsParentOf(inp, j, i) /\ IsParentOf(inp, i, k)
          /\ inp[i].kind = "SERVER" /\ inp[j].kind = "CLIENT" /\ inp[i].res = inp[j].res
          /\ HoldersOf(out.subtraces, inp[i].tok) # HoldersOf(out.subtraces, inp[j].tok)
          /\ HoldersOf(out.subtraces, inp[i].tok) = HoldersOf(out.subtraces, inp[k].tok)

\* an entry without a parent in the trace: parent id empty, or carried by no
\* entry
IsOrphan(spans, i) == spans[i].parent = EmptyID \/ spanByID(spans, spans[i].parent) = 0

\* C11 as stated: no two entries without a parent in the trace share a
\* subtrace, and a trace made only of N such entries yields N subtraces.
C11_OrphansOpenSubtraces ==
    phase = "assign-done" /\ ~out.overflow =>
        /\ \A i, j \in DOMAIN inp : i # j /\ IsOrphan(inp, i) /\ IsOrphan(inp, j) =>
              HoldersOf(out.subtraces, inp[i].tok) # HoldersOf(out.subtraces, inp[j].tok)
        /\ (\A i \in DOMAIN inp : IsOrphan(inp, i)) => Cardinality(out.subtraces) = Len(inp)

\* no other entry of the trace carries the span id of entry i
UniqueID(spans, i) == \A j \in DOMAIN spans : spans[j].id = spans[i].id => j = i

\* C11 as amended: an entry without a parent in the trace whose span id no
\* other entry carries shares its subtrace with no other such entry, and a
\* trace made only of N entries without a parent, with pairwise distinct span
\* ids, yields N subtraces.
C11_OrphansOpenSubtraces_UniqueIDs ==
    phase = "assign-done" /\ ~out.overflow =>
        /\ \A i, j \in DOMAIN inp :
              /\ i # j /\ IsOrphan(inp, i) /\ IsOrphan(inp, j)
              /\ UniqueID(inp, i) /\ UniqueID(inp, j)
              => HoldersOf(out.subtraces, inp[i].tok) # HoldersOf(out.subtraces, inp[j].tok)
        /\ (DistinctSpanIDs(inp) /\ \A i \in DOMAIN inp : IsOrphan(inp, i))
              => Cardinality(out.subtraces) = Len(inp)

\* two entries with distinct ids, one without a parent id and one naming a
\* span that is not in the trace: two subtraces
C11_Witness ==
    /\ phase = "assign-done" /\ ~out.overflow /\ DistinctSpanIDs(inp)
    /\ Len(inp) = 2 /\ \A i \in DOMAIN inp : IsOrphan(inp, i)
    /\ \E i, j \in DOMAIN inp : inp[i].parent = EmptyID /\ inp[j].parent # EmptyID
    /\ Cardinality(out.subtraces) = 2

\* the entry reached from entry i by n steps along spanByID[parent], 0 when
\* the chain ends before
RECURSIVE ancestorAt(_, _, _)
ancestorAt(spans, i, n) ==
    IF n = 0 \/ i = 0 THEN i
    ELSE IF spans[i].parent = EmptyID THEN 0
    ELSE ancestorAt(spans, spanByID(spans, spans[i].parent), n - 1)

\* the parent pointers of the trace contain a cycle
HasParentCycle(spans) ==
    \E i \in DOMAIN spans : \E n \in 1..Len(spans) : ancestorAt(spans, i, n) = i

\* the entries of a subtrace none of which is a root candidate
NoRootCandidate(state) ==
    \A i \in DOMAIN state.Spans :
        state.Spans[i].parent # EmptyID /\ state.Spans[i].parent \in IDsOf(state.Spans)

\* the first entry, in insertion order, with the smallest start timestamp
EarliestMember(spans) ==
    CHOOSE i \in DOMAIN spans :
        /\ \A j \in DOMAIN spans : spans[i].ts <= spans[j].ts
        /\ \A j \in 1..(i - 1) : spans[j].ts > spans[i].ts

\* C12 as stated: for a trace whose parent pointers contain a cycle the
\* assignment returns, every entry is in a returned subtrace, and a subtrace
\* without a root candidate gets as root its member with the smallest start
\* timestamp, the first inserted among equals.
C12_CycleHandling ==
    phase = "assign-done" /\ HasParentCycle(inp) =>
        /\ ~out.overflow
        /\ \A i \in DOMAIN inp : HoldersOf(out.subtraces, inp[i].tok) # {}
        /\ \A s \in out.subtraces : NoRootCandidate(s) =>
              determineRootSpan(s).RootSpan = EarliestMember(s.Spans)

\* what the code does: among the traces with pairwise distinct span ids, the
\* assignment fails to return exactly on those with a parent cycle
OverflowIffCycle ==
    phase = "assign-done" /\ DistinctSpanIDs(inp) => (out.overflow <=> HasParentCycle(inp))

\* the arrangements of n entries
Perms(n) == {q \in [1..n -> 1..n] : \A i, j \in 1..n : i # j => q[i] # q[j]}

\* the sets of span ids a result groups the spans into
GroupsByID(r) == {IDsOf(s.Spans) : s \in r.subtraces}

\* the result for the entries of spans arranged as q
assignPermuted(spans, q) ==
    assignSubtraces([Spans |-> [i \in DOMAIN spans |-> spans[q[i]]], FirstSeen |-> 0],
                    AssignTraceID)

\* C13 as stated: for any trace, assignSubtraces on any arrangement of the
\* same entries groups them into the same sets of span ids.
C13_OrderIndependence ==
    phase = "assign-done" /\ ~out.overflow =>
        \A q \in Perms(Len(inp)) :
            /\ ~assignPermuted(inp, q).overflow
            /\ GroupsByID(assignPermuted(inp, q)) = GroupsByID(out)

\* C13 as amended: the same, for traces in which the entries that share a
\* span id agree on parent id, kind and resource hash (so for every trace
\* with pairwise distinct span ids).
C13_OrderIndependence_ConsistentIDs ==
    phase = "assign-done" /\ ~out.overflow /\ SameIDSameSpan(inp) =>
        \A q \in Perms(Len(inp)) :
            /\ ~assignPermuted(inp, q).overflow
            /\ GroupsByID(assignPermuted(inp, q)) = GroupsByID(out)

\* a child and a grandchild that both arrived before the parent, the child
\* cut off from the parent and keeping the grandchild
C13_Witness ==
    /\ phase = "assign-done" /\ ~out.overflow /\ DistinctSpanIDs(inp)
    /\ \E i, j, k \in DOMAIN inp :
          /\ k < i /\ i < j /\ IsParentOf(inp, j, i) /\ IsParentOf(inp, i, k)
          /\ MustCut(inp[j], inp[i]) /\ ~MustCut(inp[i], inp[k])
    /\ Cardinality(GroupsByID(out)) = 2

----------------------------------------------------------------------------
(* The trace buffer (buffer.go)                                             *)

\* b.traces holds no state under the trace id (the nil *TraceState)
NoTrace == [absent |-> TRUE]

\* downstream has received no batch yet
NoBatch == [absent |-> TRUE]

\* the configuration of the processor under check
MaxSpansPerTrace == 2
Timeout == 1

\* a mutant of Add: FirstSeen is set on every insertion
Add_RefreshFirstSeen(traces, traceID, entry, time) ==
    LET traceState == IF traces[traceID] = NoTrace
                        THEN [Spans |-> <<>>, FirstSeen |-> time]
                        ELSE traces[traceID]
        added == [traceState EXCEPT !.Spans = Append(@, entry), !.FirstSeen = time]
    IN  [traces |-> [traces EXCEPT ![traceID] = added],
         shouldFlush |-> Len(added.Spans) >= MaxSpansPerTrace]

\* Buffer.Add, under b.mu.Lock: creates the state on the first span, appends
\* the copied entry, reports whether the cap is reached
Add(traces, traceID, entry, time) ==
    LET traceState == IF traces[traceID] = NoTrace
                        THEN [Spans |-> <<>>, FirstSeen |-> time]
                        ELSE traces[traceID]
        added == [traceState EXCEPT !.Spans = Append(@, entry)]
    IN  [traces |-> [traces EXCEPT ![traceID] = added],
         shouldFlush |-> Len(added.Spans) >= MaxSpansPerTrace]

\* a mutant of RemoveTrace: the state is returned but left in the map
RemoveTrace_NoDelete(traces, traceID) ==
    [traces |-> traces, traceState |-> traces[traceID]]

\* Buffer.RemoveTrace, under b.mu.Lock: take and delete
RemoveTrace(traces, traceID) ==
    [traces |-> [traces EXCEPT ![traceID] = NoTrace], traceState |-> traces[traceID]]

\* Buffer.GetExpiredTraceIDs, under b.mu.RLock: FirstSeen.Before(now - timeout)
GetExpiredTraceIDs(traces, time) ==
    {t \in DOMAIN traces :
        /\ traces[t] # NoTrace
        /\ traces[t].FirstSeen < time - Timeout
        /\ Len(traces[t].Spans) > 0}

\* a mutant of GetAllTraceIDs: one of the buffered ids is left out
GetAllTraceIDs_AllButOne(traces) ==
    LET all == {t \in DOMAIN traces : traces[t] # NoTrace /\ Len(traces[t].Spans) > 0}
    IN  IF all = {} THEN {} ELSE all \ {CHOOSE t \in all : \A u \in all : t >= u}

\* Buffer.GetAllTraceIDs, under b.mu.RLock
GetAllTraceIDs(traces) ==
    {t \in DOMAIN traces : traces[t] # NoTrace /\ Len(traces[t].Spans) > 0}

\* the orders in which ranging over the Go map may list a set of trace ids
OrdersOf(S) ==
    {q \in UNION {[1..n -> S] : n \in {Cardinality(S)}} :
        \A i, j \in DOMAIN q : i # j => q[i] # q[j]}

----------------------------------------------------------------------------
(* Spec: the running processor                                              *)

MaxInserts == 3
MaxTime == 2
TraceIDs == {1}
ErrorModes == {"ignore", "propagate"}

\* the spans the upstream sends: a SERVER root, its CLIENT child that already
\* carries both subtrace attributes from an upstream processor, a SERVER
\* child of that client in another service, and a span naming itself as parent
UpstreamSubtraceID == generateSubtraceID(0, 0)

SpanPool ==
    { [id |-> 1, parent |-> EmptyID, kind |-> "SERVER", res |-> "resA", ts |-> 1,
       sid |-> NoAttr, isRoot |-> NoAttr],
      [id |-> 2, parent |-> 1, kind |-> "CLIENT", res |-> "resA", ts |-> 0,
       sid |-> Attr(UpstreamSubtraceID), isRoot |-> Attr(TRUE)],
      [id |-> 3, parent |-> 2, kind |-> "SERVER", res |-> "resB", ts |-> 0,
       sid |-> NoAttr, isRoot |-> NoAttr],
      [id |-> 4, parent |-> 4, kind |-> "INTERNAL", res |-> "resA", ts |-> 0,
       sid |-> NoAttr, isRoot |-> NoAttr] }

Procs == {"cons", "sweep", "shut"}

\* a goroutine between flushes: nothing listed, nothing taken
Resting(pc) == [pc |-> pc, ids |-> <<>>, pending |-> {}, sawErr |-> FALSE, ret |-> "none"]

Init ==
    /\ phase = "run"
    /\ inp = <<>> /\ out = Unassigned
    /\ buffer = [t \in TraceIDs |-> NoTrace]
    /\ now = 0
    /\ nextTok = 0
    /\ proc = [p \in Procs |-> Resting(CASE p = "cons" -> "idle"
                                         [] p = "sweep" -> "wait"
                                         [] p = "shut" -> "none")]
    /\ fwd = [k \in {} |-> 0]
    /\ lastBatch = NoBatch
    /\ dsErred = {}
    /\ crashed = FALSE
    /\ cfg \in [errorMode : ErrorModes]

Running == phase = "run" /\ ~crashed

\* a mutant of ConsumeAdd: the insertion waits until no flush is between its
\* take and its last forward (the buffer lock held across forwarding)
ConsumeAdd_WaitsForFlush(t, sh) ==
    /\ Running
    /\ \A p \in Procs : proc[p].pending = {}
    /\ proc["cons"].pc \in {"idle", "adding"}
    /\ nextTok < MaxInserts
    /\ LET e == Entry(nextTok + 1, sh.id, sh.parent, sh.kind, sh.res, sh.ts, sh.sid, sh.isRoot)
           r == Add(buffer, t, e, now)
           c == IF proc["cons"].pc = "idle" THEN Resting("adding") ELSE proc["cons"]
       IN  /\ buffer' = r.traces
           /\ proc' = [proc EXCEPT !["cons"] =
                         [c EXCEPT !.ids = IF r.shouldFlush THEN Append(@, t) ELSE @]]
    /\ nextTok' = nextTok + 1
    /\ fwd' = [k \in 1..(nextTok + 1) |-> IF k \in DOMAIN fwd THEN fwd[k] ELSE 0]
    /\ UNCHANGED <<phase, pvars, now, lastBatch, dsErred, crashed, cfg>>

\* ConsumeTraces, processor.go:76-95: one pass of the inner loop.  The spans
\* of the batch are drawn one at a time, as the loop reaches them.
ConsumeAdd(t, sh) ==
    /\ Running
    /\ proc["cons"].pc \in {"idle", "adding"}
    /\ nextTok < MaxInserts
    /\ LET e == Entry(nextTok + 1, sh.id, sh.parent, sh.kind, sh.res, sh.ts, sh.sid, sh.isRoot)
           r == Add(buffer, t, e, now)
           c == IF proc["cons"].pc = "idle" THEN Resting("adding") ELSE proc["cons"]
       IN  /\ buffer' = r.traces
           /\ proc' = [proc EXCEPT !["cons"] =
                         [c EXCEPT !.ids = IF r.shouldFlush THEN Append(@, t) ELSE @]]
    /\ nextTok' = nextTok + 1
    /\ fwd' = [k \in 1..(nextTok + 1) |-> IF k \in DOMAIN fwd THEN fwd[k] ELSE 0]
    /\ UNCHANGED <<phase, pvars, now, lastBatch, dsErred, crashed, cfg>>

\* ConsumeTraces, processor.go:95-97: the batch is inserted, the flush loop starts
ConsumeInserted ==
    /\ Running
    /\ proc["cons"].pc = "adding"
    /\ proc' = [proc EXCEPT !["cons"].pc = "flushing"]
    /\ UNCHANGED <<phase, pvars, buffer, now, nextTok, fwd, lastBatch, dsErred, crashed, cfg>>

\* a mutant of takeTrace: the missing state is not checked for, and the nil
\* pointer is dereferenced
takeTrace_NoNilCheck(traces, traceID) ==
    LET r == RemoveTrace(traces, traceID)
    IN  IF r.traceState = NoTrace
          THEN [traces |-> r.traces, overflow |-> TRUE, batches |-> {}]
          ELSE [traces |-> r.traces] @@ flushBatches(r.traceState, traceID)

\* flushTrace, processor.go:131-137: the state is taken out of the buffer; a
\* missing or empty state ends the call with nil, any other is split into
\* the batches to forward
takeTrace(traces, traceID) ==
    LET r == RemoveTrace(traces, traceID)
    IN  IF r.traceState = NoTrace \/ Len(r.traceState.Spans) = 0
          THEN [traces |-> r.traces, overflow |-> FALSE, batches |-> {}]
          ELSE [traces |-> r.traces] @@ flushBatches(r.traceState, traceID)

\* flushTrace, processor.go:131-137, called by goroutine p for the next listed
\* id: RemoveTrace, then (off the lock) the subtraces are assigned
FlushTake(p) ==
    /\ Running
    /\ proc[p].pc = "flushing" /\ proc[p].pending = {} /\ proc[p].ids # <<>>
    /\ LET f == takeTrace(buffer, Head(proc[p].ids))
       IN  /\ buffer' = f.traces
           /\ crashed' = f.overflow
           /\ proc' = [proc EXCEPT ![p].ids = Tail(@), ![p].pending = f.batches]
    /\ UNCHANGED <<phase, pvars, now, nextTok, fwd, lastBatch, dsErred, cfg>>

\* a mutant of Forward: on an error the spans of the refused batch are put
\* back into the buffer to be flushed again
Forward_Retry(p, s, err) ==
    /\ Running
    /\ proc[p].pc = "flushing" /\ s \in proc[p].pending
    /\ fwd' = [k \in DOMAIN fwd |-> IF k \in {s.Spans[i].tok : i \in DOMAIN s.Spans}
                                      THEN fwd[k] + 1 ELSE fwd[k]]
    /\ lastBatch' = s
    /\ dsErred' = IF err THEN dsErred \cup {s.TraceID} ELSE dsErred
    /\ proc' = [proc EXCEPT ![p].pending = IF err THEN {} ELSE @ \ {s},
                            ![p].sawErr = @ \/ err]
    /\ buffer' = IF err THEN [buffer EXCEPT ![s.TraceID] =
                                 [Spans |-> s.Spans, FirstSeen |-> s.FirstSeen]]
                 ELSE buffer
    /\ UNCHANGED <<phase, pvars, now, nextTok, crashed, cfg>>

\* flushTrace, processor.go:155-169: one subtrace is built into a batch and
\* handed to nextConsumer.ConsumeTraces; on an error flushTrace returns it and
\* the subtraces not yet forwarded are given up
Forward(p, s, err) ==
    /\ Running
    /\ proc[p].pc = "flushing" /\ s \in proc[p].pending
    /\ fwd' = [k \in DOMAIN fwd |-> IF k \in {s.Spans[i].tok : i \in DOMAIN s.Spans}
                                      THEN fwd[k] + 1 ELSE fwd[k]]
    /\ lastBatch' = s
    /\ dsErred' = IF err THEN dsErred \cup {s.TraceID} ELSE dsErred
    /\ proc' = [proc EXCEPT ![p].pending = IF err THEN {} ELSE @ \ {s},
                            ![p].sawErr = @ \/ err]
    /\ UNCHANGED <<phase, pvars, buffer, now, nextTok, crashed, cfg>>

\* what ConsumeTraces returns (processor.go:105) after its flush loop logged
\* the errors of flushTrace (processor.go:98-102)
consumeTracesResult(errorMode, sawErr) == "nil"

\* ConsumeTraces, processor.go:97-105: every listed id is flushed; return
ConsumeReturn ==
    /\ Running
    /\ proc["cons"].pc = "flushing" /\ proc["cons"].pending = {} /\ proc["cons"].ids = <<>>
    /\ proc' = [proc EXCEPT !["cons"].pc = "returned",
                            !["cons"].ret = consumeTracesResult(cfg.errorMode, proc["cons"].sawErr)]
    /\ UNCHANGED <<phase, pvars, buffer, now, nextTok, fwd, lastBatch, dsErred, crashed, cfg>>

\* the caller has the result of ConsumeTraces and may call again
ConsumeCallerResumes ==
    /\ Running
    /\ proc["cons"].pc = "returned"
    /\ proc' = [proc EXCEPT !["cons"] = Resting("idle")]
    /\ UNCHANGED <<phase, pvars, buffer, now, nextTok, fwd, lastBatch, dsErred, crashed, cfg>>

\* flushLoop, processor.go:118-119: the ticker fires, the expired ids are listed
SweepTick ==
    /\ Running
    /\ proc["sweep"].pc = "wait"
    /\ \E q \in OrdersOf(GetExpiredTraceIDs(buffer, now)) :
          proc' = [proc EXCEPT !["sweep"].ids = q,
                               !["sweep"].pc = IF q = <<>> THEN "wait" ELSE "flushing"]
    /\ UNCHANGED <<phase, pvars, buffer, now, nextTok, fwd, lastBatch, dsErred, crashed, cfg>>

\* flushLoop, processor.go:119-126: the sweep is over, back to the select
SweepDone ==
    /\ Running
    /\ proc["sweep"].pc = "flushing" /\ proc["sweep"].pending = {} /\ proc["sweep"].ids = <<>>
    /\ proc' = [proc EXCEPT !["sweep"] = Resting("wait")]
    /\ UNCHANGED <<phase, pvars, buffer, now, nextTok, fwd, lastBatch, dsErred, crashed, cfg>>

\* flushLoop, processor.go:116-117: shutdownCh is closed, the goroutine returns
SweepExit ==
    /\ Running
    /\ proc["sweep"].pc = "wait" /\ proc["shut"].pc # "none"
    /\ proc' = [proc EXCEPT !["sweep"].pc = "exited"]
    /\ UNCHANGED <<phase, pvars, buffer, now, nextTok, fwd, lastBatch, dsErred, crashed, cfg>>

\* Shutdown, processor.go:52: close(p.shutdownCh)
ShutdownClose ==
    /\ Running
    /\ proc["shut"].pc = "none"
    /\ proc' = [proc EXCEPT !["shut"].pc = "waiting"]
    /\ UNCHANGED <<phase, pvars, buffer, now, nextTok, fwd, lastBatch, dsErred, crashed, cfg>>

\* Shutdown, processor.go:53-56: wg.Wait returns, the buffered ids are listed
ShutdownDrain ==
    /\ Running
    /\ proc["shut"].pc = "waiting" /\ proc["sweep"].pc = "exited"
    /\ \E q \in OrdersOf(GetAllTraceIDs(buffer)) :
          proc' = [proc EXCEPT !["shut"].ids = q, !["shut"].pc = "flushing"]
    /\ UNCHANGED <<phase, pvars, buffer, now, nextTok, fwd, lastBatch, dsErred, crashed, cfg>>

\* Shutdown, processor.go:56-65: every listed id is flushed; return nil
ShutdownReturn ==
    /\ Running
    /\ proc["shut"].pc = "flushing" /\ proc["shut"].pending = {} /\ proc["shut"].ids = <<>>
    /\ proc' = [proc EXCEPT !["shut"] = [Resting("done") EXCEPT !.ret = "nil"]]
    /\ UNCHANGED <<phase, pvars, buffer, now, nextTok, fwd, lastBatch, dsErred, crashed, cfg>>

\* time passes
Tick ==
    /\ Running
    /\ now < MaxTime
    /\ now' = now + 1
    /\ UNCHANGED <<phase, pvars, buffer, nextTok, proc, fwd, lastBatch, dsErred, crashed, cfg>>

Next ==
    \/ \E t \in TraceIDs, sh \in SpanPool : ConsumeAdd(t, sh)
    \/ ConsumeInserted
    \/ \E p \in Procs : FlushTake(p)
    \/ \E p \in Procs : \E s \in proc[p].pending : \E err \in BOOLEAN : Forward(p, s, err)
    \/ ConsumeReturn
    \/ ConsumeCallerResumes
    \/ SweepTick
    \/ SweepDone
    \/ SweepExit
    \/ ShutdownClose
    \/ ShutdownDrain
    \/ ShutdownReturn
    \/ Tick

Spec == Init /\ [][Next]_vars

----------------------------------------------------------------------------
(* Claims about the running processor (Spec)                                *)

InBuffer(k) ==
    \E t \in TraceIDs : buffer[t] # NoTrace /\ k \in ToksOf(buffer[t].Spans)

\* the goroutines whose flush in progress holds entry k, not yet forwarded
HeldBy(k) == {p \in Procs : \E s \in proc[p].pending : k \in ToksOf(s.Spans)}

\* C2 as stated: in every reachable state no trace state holds more than
\* max_spans_per_trace entries.
C2_SizeCap ==
    phase = "run" =>
        \A t \in TraceIDs : buffer[t] # NoTrace => Len(buffer[t].Spans) <= MaxSpansPerTrace

IsRootLabelled(e) == e.isRoot = Attr(TRUE)

\* C3 as stated: every non-empty batch handed downstream holds exactly one
\* span with subtrace.is_root_span = true, whatever the spans carried on
\* arrival.
C3_RootLabeling ==
    phase = "run" /\ lastBatch # NoBatch /\ Len(lastBatch.Spans) >= 1 =>
        Cardinality({k \in DOMAIN lastBatch.Spans : IsRootLabelled(lastBatch.Spans[k])}) = 1

C5_AtMostOnceFlush ==
    phase = "run" =>
        \A k \in DOMAIN fwd :
            /\ fwd[k] <= 1
            /\ (IF InBuffer(k) THEN 1 ELSE 0) + Cardinality(HeldBy(k)) + fwd[k] <= 1

\* the caller and the sweeper both still list a trace id whose state an
\* earlier flush has taken and forwarded
C5_Witness ==
    /\ phase = "run"
    /\ \E t \in TraceIDs :
          /\ buffer[t] = NoTrace
          /\ proc["cons"].ids # <<>> /\ Head(proc["cons"].ids) = t
          /\ proc["sweep"].ids # <<>> /\ Head(proc["sweep"].ids) = t
    /\ \E k \in DOMAIN fwd : fwd[k] = 1

\* C6, its safety half: as long as downstream has returned no error, every
\* span entry inserted is still buffered, or held by a flush in progress, or
\* has been forwarded.
C6_NoSilentDrop ==
    phase = "run" /\ dsErred = {} =>
        \A k \in 1..nextTok : InBuffer(k) \/ HeldBy(k) # {} \/ fwd[k] >= 1

\* what the code does give: no entry is given up while downstream accepts
\* every batch and no flush has met a parent cycle
NoDropBeforeCrash ==
    phase = "run" /\ dsErred = {} /\ ~crashed =>
        \A k \in 1..nextTok : InBuffer(k) \/ HeldBy(k) # {} \/ fwd[k] >= 1

\* C7 as stated: a ConsumeTraces call returns an error exactly when
\* error_mode is propagate and one of its inline flushes got an error from
\* downstream.
C7_PropagateError ==
    phase = "run" /\ proc["cons"].pc = "returned" =>
        ((proc["cons"].ret = "err") <=> (cfg.errorMode = "propagate" /\ proc["cons"].sawErr))

----------------------------------------------------------------------------
(* The aggregator: attribute values, conditions, attribute rules            *)

\* pcommon.Value: num/den is the number of an Int or Double (den = 1 unless a
\* division made it), num is 1/0 for a Bool
Val(type, num, den, str, items) ==
    [type |-> type, num |-> num, den |-> den, str |-> str, items |-> items]

ValueEmpty == Val("Empty", 0, 1, "", <<>>)
ValueInt(n) == Val("Int", n, 1, "", <<>>)
ValueDouble(n, d) == Val("Double", n, d, "", <<>>)
ValueStr(x) == Val("Str", 0, 1, x, <<>>)
ValueBool(b) == Val("Bool", IF b THEN 1 ELSE 0, 1, "", <<>>)
ValueSlice(items) == Val("Slice", 0, 1, "", items)

\* Value.Str and Value.Bool give the zero value on another type
StrOf(v) == IF v.type = "Str" THEN v.str ELSE ""
BoolOf(v) == v.type = "Bool" /\ v.num = 1

\* Value.AsString: the canonical string of a value
AsString(v) ==
    CASE v.type = "Str" -> v.str
      [] v.type = "Int" -> ToString(v.num)
      [] v.type = "Double" ->
            IF v.den = 1 THEN ToString(v.num) ELSE ToString(v.num) \o "/" \o ToString(v.den)
      [] v.type = "Bool" -> IF v.num = 1 THEN "true" ELSE "false"
      [] OTHER -> ""

\* pcommon.Map: a function from the keys present to their values
Has(attrs, k) == k \in DOMAIN attrs
Get(attrs, k) == IF k \in DOMAIN attrs THEN attrs[k] ELSE ValueEmpty
Put(attrs, k, v) == [x \in DOMAIN attrs \cup {k} |-> IF x = k THEN v ELSE attrs[x]]

IsRootKey == "subtrace.is_root_span"

\* A condition string, word by word: atoms attributes["key"] op value, and
\* the connectives " and ", " or "; the empty sequence is the empty string.
Atom(key, op, vtype, val) ==
    [word |-> "atom", key |-> key, op |-> op, vtype |-> vtype, val |-> val]
AndWord == [word |-> "and", key |-> "", op |-> "", vtype |-> "", val |-> ""]
OrWord == [word |-> "or", key |-> "", op |-> "", vtype |-> "", val |-> ""]

\* the five regular expressions of evaluateSingleCondition, in the order tried
SinglePatterns ==
    << [op |-> "!=", vtype |-> "nil"], [op |-> "==", vtype |-> "nil"],
       [op |-> "==", vtype |-> "str"], [op |-> "!=", vtype |-> "str"],
       [op |-> "==", vtype |-> "bool"] >>

\* FindStringSubmatch: the leftmost atom of the text that pattern k matches,
\* 0 when none
FindAtom(text, k) ==
    LET S == {i \in DOMAIN text : /\ text[i].word = "atom"
                                  /\ text[i].op = SinglePatterns[k].op
                                  /\ text[i].vtype = SinglePatterns[k].vtype}
    IN  IF S = {} THEN 0 ELSE CHOOSE i \in S : \A j \in S : i <= j

\* evaluateSingleCondition: the first pattern that matches somewhere in the
\* text decides; no match is permissive
RECURSIVE evaluateSinglePattern(_, _, _)
evaluateSinglePattern(attrs, text, k) ==
    IF k > Len(SinglePatterns) THEN TRUE
    ELSE LET i == FindAtom(text, k)
         IN  IF i = 0 THEN evaluateSinglePattern(attrs, text, k + 1)
             ELSE LET a == text[i]
                      val == Get(attrs, a.key)
                      exists == Has(attrs, a.key)
                  IN  CASE k = 1 -> exists
                        [] k = 2 -> ~exists
                        [] k = 3 -> exists /\ StrOf(val) = a.val
                        [] k = 4 -> ~exists \/ StrOf(val) # a.val
                        [] OTHER -> exists /\ (BoolOf(val) <=> (a.val = "true"))

evaluateSingleCondition(attrs, text) == evaluateSinglePattern(attrs, text, 1)

\* strings.Split(condition, sep): the texts between the words sep
RECURSIVE SplitOn(_, _)
SplitOn(text, sep) ==
    LET S == {i \in DOMAIN text : text[i].word = sep}
    IN  IF S = {} THEN <<text>>
        ELSE LET i == CHOOSE x \in S : \A y \in S : x <= y
             IN  <<SubSeq(text, 1, i - 1)>> \o SplitOn(SubSeq(text, i + 1, Len(text)), sep)

\* evaluateCondition: " and " is looked for first, then " or "
evaluateCondition(attrs, condition) ==
    IF \E i \in DOMAIN condition : condition[i].word = "and"
      THEN \A k \in DOMAIN SplitOn(condition, "and") :
              evaluateSingleCondition(attrs, SplitOn(condition, "and")[k])
    ELSE IF \E i \in DOMAIN condition : condition[i].word = "or"
      THEN \E k \in DOMAIN SplitOn(condition, "or") :
              evaluateSingleCondition(attrs, SplitOn(condition, "or")[k])
    ELSE evaluateSingleCondition(attrs, condition)

evaluateSpanCondition(span, condition) == evaluateCondition(span.attrs, condition)
evaluateEventCondition(event, condition) == evaluateCondition(event.attrs, condition)

\* getAttributeValue: source is the key inside attributes["..."], "" when the
\* rule names no source
getAttributeValue(span, source) ==
    IF source # "" /\ Has(span.attrs, source) THEN span.attrs[source] ELSE ValueEmpty

DefaultMaxValues == 100

\* getNumericValue: 0 for a value that is neither Int nor Double
getNumericValue(v) == IF v.type \in {"Int", "Double"} THEN v.num ELSE 0

\* the running sum of the sum and avg cases: only Int and Double values add
RECURSIVE sumOf(_, _)
sumOf(values, k) ==
    IF k > Len(values) THEN 0
    ELSE (IF values[k].type \in {"Int", "Double"} THEN values[k].num ELSE 0)
         + sumOf(values, k + 1)

\* the scans of the min and max cases, from values[1] on
RECURSIVE minOf(_, _, _)
minOf(values, k, minVal) ==
    IF k > Len(values) THEN minVal
    ELSE minOf(values, k + 1,
               IF getNumericValue(values[k]) < minVal THEN getNumericValue(values[k])
               ELSE minVal)

RECURSIVE maxOf(_, _, _)
maxOf(values, k, maxVal) ==
    IF k > Len(values) THEN maxVal
    ELSE maxOf(values, k + 1,
               IF getNumericValue(values[k]) > maxVal THEN getNumericValue(values[k])
               ELSE maxVal)

\* the loop of the all_distinct case over values[lo..hi], folded by halves of
\* the range; st.seen holds the canonical strings met, st.slice the array so
\* far, st.broke is set by the break
RECURSIVE distinctRange(_, _, _, _, _)
distinctRange(values, lo, hi, st, maxValues) ==
    IF lo > hi \/ st.broke THEN st
    ELSE IF lo = hi
      THEN IF AsString(values[lo]) \in st.seen THEN st
           ELSE IF Len(st.slice) >= maxValues
             THEN [st EXCEPT !.seen = @ \cup {AsString(values[lo])}, !.broke = TRUE]
           ELSE [st EXCEPT !.seen = @ \cup {AsString(values[lo])},
                           !.slice = Append(@, values[lo])]
    ELSE distinctRange(values, (lo + hi) \div 2 + 1, hi,
                       distinctRange(values, lo, (lo + hi) \div 2, st, maxValues),
                       maxValues)

distinctOf(values, maxValues) ==
    distinctRange(values, 1, Len(values),
                  [seen |-> {}, slice |-> <<>>, broke |-> FALSE], maxValues).slice

\* a mutant of computeAggregation: the all cases without the cap
computeAggregation_Uncapped(aggType, values, count, maxValues) ==
    CASE aggType = "all" -> ValueSlice(values)
      [] aggType = "all_distinct" -> ValueSlice(distinctOf(values, Len(values)))
      [] OTHER -> ValueEmpty

\* computeAggregation
computeAggregation(aggType, values, count, maxValues) ==
    LET mv == IF maxValues <= 0 THEN DefaultMaxValues ELSE maxValues
    IN  CASE aggType = "count" -> ValueInt(count)
          [] aggType = "any" -> IF Len(values) > 0 THEN values[1] ELSE ValueEmpty
          [] aggType = "sum" ->
                IF \A k \in DOMAIN values : values[k].type # "Double"
                  THEN ValueInt(sumOf(values, 1))
                  ELSE ValueDouble(sumOf(values, 1), 1)
          [] aggType = "avg" ->
                IF Len(values) = 0 THEN ValueEmpty
                ELSE ValueDouble(sumOf(values, 1), Len(values))
          [] aggType = "min" ->
                IF Len(values) = 0 THEN ValueEmpty
                ELSE ValueDouble(minOf(values, 2, getNumericValue(values[1])), 1)
          [] aggType = "max" ->
                IF Len(values) = 0 THEN ValueEmpty
                ELSE ValueDouble(maxOf(values, 2, getNumericValue(values[1])), 1)
          [] aggType = "all" ->
                ValueSlice(SubSeq(values, 1, IF Len(values) < mv THEN Len(values) ELSE mv))
          [] aggType = "all_distinct" -> ValueSlice(distinctOf(values, mv))
          [] OTHER -> ValueEmpty

\* AttributeAggregation; Source is the attribute key, "" for none
AttributeAggregation(aggregation, source, condition, target, maxValues) ==
    [Aggregation |-> aggregation, Source |-> source, Condition |-> condition,
     Target |-> target, MaxValues |-> maxValues]

\* applyAttributeAggregation, the loop over state.Spans: the spans that are
\* neither skipped as root nor filtered by the condition
countedSpans(state, agg) ==
    SelectSeq(state.Spans,
              LAMBDA span :
                  /\ ~(Has(span.attrs, IsRootKey) /\ BoolOf(span.attrs[IsRootKey]))
                  /\ (agg.Condition = <<>> \/ evaluateSpanCondition(span, agg.Condition)))

\* the source values of spans that have one
RECURSIVE sourceValues(_, _, _)
sourceValues(spans, source, k) ==
    IF k > Len(spans) THEN <<>>
    ELSE (IF getAttributeValue(spans[k], source).type # "Empty"
            THEN <<getAttributeValue(spans[k], source)>> ELSE <<>>)
         \o sourceValues(spans, source, k + 1)

\* applyAttributeAggregation: the subtrace state after the rule
applyAttributeAggregation(state, agg) ==
    LET counted == countedSpans(state, agg)
        count == Len(counted)
        values == IF agg.Source # "" THEN sourceValues(counted, agg.Source, 1) ELSE <<>>
        result == computeAggregation(agg.Aggregation, values, count, agg.MaxValues)
    IN  IF count = 0 /\ agg.Aggregation # "count" THEN state
        ELSE IF Len(values) = 0 /\ agg.Aggregation # "count" THEN state
        ELSE IF result.type = "Empty" THEN state
        ELSE [state EXCEPT !.Spans[state.RootSpan].attrs = Put(@, agg.Target, result)]

----------------------------------------------------------------------------
(* SpecAttr: applyAttributeAggregation on every labelled subtrace of at     *)
(* most MaxMembers spans and every attribute rule                           *)

MaxMembers == 3

\* a span as the aggregator reads it: id, attribute map, events
AggSpan(id, attrs, events) == [id |-> id, attrs |-> attrs, events |-> events]

\* a map from the pairs <<key, value>> given
MapOf(pairs) == [k \in {q[1] : q \in pairs} |-> (CHOOSE q \in pairs : q[1] = k)[2]]

\* the attribute maps of the members other than the root: "v" is the source
\* attribute of the rules, "c" the attribute their condition asks for; one
\* member arrived with subtrace.is_root_span = true set upstream, which
\* flushTrace leaves in place
MemberAttrs ==
    { MapOf({}),
      MapOf({<<"v", ValueInt(2)>>, <<"c", ValueStr("x")>>}),
      MapOf({<<"v", ValueInt(1)>>, <<"c", ValueStr("x")>>}),
      MapOf({<<"v", ValueStr("a")>>, <<"c", ValueStr("x")>>}),
      MapOf({<<"v", ValueDouble(3, 1)>>, <<"c", ValueStr("x")>>}),
      MapOf({<<"v", ValueInt(2)>>}),
      MapOf({<<"c", ValueStr("x")>>}),
      MapOf({<<"v", ValueInt(1)>>, <<"c", ValueStr("x")>>, <<IsRootKey, ValueBool(TRUE)>>}) }

\* the attribute maps of the root, labelled by flushTrace before Apply
RootAttrs ==
    { MapOf({<<IsRootKey, ValueBool(TRUE)>>}),
      MapOf({<<IsRootKey, ValueBool(TRUE)>>, <<"v", ValueInt(5)>>, <<"c", ValueStr("x")>>}),
      MapOf({<<IsRootKey, ValueBool(TRUE)>>, <<"t", ValueStr("old")>>}),
      MapOf({<<IsRootKey, ValueBool(TRUE)>>, <<"v", ValueStr("b")>>, <<"t", ValueStr("old")>>}) }

NumericKinds == {"sum", "avg", "min", "max"}
ArrayKinds == {"all", "all_distinct"}
AttributeKinds == {"count", "any"} \cup NumericKinds \cup ArrayKinds

HasC == <<Atom("c", "!=", "nil", "")>>

AttrRules ==
    {AttributeAggregation(a, IF a = "count" THEN "" ELSE "v", c, "t", m) :
        a \in AttributeKinds, c \in {<<>>, HasC}, m \in {0, 1}}

AttrInit ==
    /\ phase = "attr-input"
    /\ \E n \in 1..MaxMembers : \E r \in 1..n : \E ra \in RootAttrs :
       \E f \in [1..n -> MemberAttrs] : \E agg \in AttrRules :
          /\ agg.Aggregation \notin ArrayKinds => agg.MaxValues = 0
          /\ f[r] = MapOf({})
          /\ inp = [state |-> [Spans |-> [i \in 1..n |->
                                  AggSpan(i, IF i = r THEN ra ELSE f[i], <<>>)],
                               RootSpan |-> r],
                    agg |-> agg]
    /\ out = Unassigned
    /\ Idle

ApplyAttr ==
    /\ phase = "attr-input"
    /\ phase' = "attr-done"
    /\ out' = applyAttributeAggregation(inp.state, inp.agg)
    /\ UNCHANGED <<inp, mvars>>

AttrNext == ApplyAttr

SpecAttr == AttrInit /\ [][AttrNext]_vars

----------------------------------------------------------------------------
(* Claims about attribute rules (SpecAttr)                                  *)

\* the members other than the chosen root, in insertion order
Others(state) ==
    [k \in 1..(Len(state.Spans) - 1) |->
        state.Spans[IF k < state.RootSpan THEN k ELSE k + 1]]

\* the span passes the condition of the rule
Satisfies(span, agg) ==
    agg.Condition = <<>> \/ evaluateCondition(span.attrs, agg.Condition)

\* the members other than the root that pass the condition of the rule
Matching(state, agg) == SelectSeq(Others(state), LAMBDA span : Satisfies(span, agg))

\* the root's attribute map before and after the rule
RootBefore == inp.state.Spans[inp.state.RootSpan].attrs
RootAfter == out.Spans[out.RootSpan].attrs

\* no member other than the root carries subtrace.is_root_span = true
SoleRootLabel(state) ==
    \A i \in DOMAIN state.Spans :
        i # state.RootSpan =>
            ~(Has(state.Spans[i].attrs, IsRootKey) /\ BoolOf(state.Spans[i].attrs[IsRootKey]))

\* C15 as stated: a count rule writes on the root the number of members
\* other than the root that satisfy the condition, also when members carry
\* their own subtrace.is_root_span.
C15_Counting ==
    phase = "attr-done" /\ inp.agg.Aggregation = "count" =>
        /\ Has(RootAfter, inp.agg.Target)
        /\ RootAfter[inp.agg.Target] = ValueInt(Len(Matching(inp.state, inp.agg)))

\* what the code does give: the count is right when the root alone carries
\* subtrace.is_root_span = true
CountingWhenSoleRootLabel ==
    phase = "attr-done" /\ inp.agg.Aggregation = "count" /\ SoleRootLabel(inp.state) =>
        /\ Has(RootAfter, inp.agg.Target)
        /\ RootAfter[inp.agg.Target] = ValueInt(Len(Matching(inp.state, inp.agg)))

\* C16 as stated: when no member other than the root matches the rule, of
\* whatever kind, the root's attributes are left as they were.
C16_NoMatchNoWrite ==
    phase = "attr-done" /\ Len(Matching(inp.state, inp.agg)) = 0 => RootAfter = RootBefore

\* what the code does give: the same for every kind but count
NoMatchNoWriteButCount ==
    phase = "attr-done" /\ Len(Matching(inp.state, inp.agg)) = 0
        /\ inp.agg.Aggregation # "count" => RootAfter = RootBefore

\* the non-null source values of the members other than the root that pass
\* the condition, in insertion order
MatchedValues(state, agg) ==
    LET m == Matching(state, agg)
        has(k) == Has(m[k].attrs, agg.Source) /\ m[k].attrs[agg.Source].type # "Empty"
        idx == SelectSeq(upTo(Len(m)), has)
    IN  [k \in DOMAIN idx |-> m[idx[k]].attrs[agg.Source]]

IsNumeric(v) == v.type \in {"Int", "Double"}

\* the sum of the numbers of a sequence of Int and Double values
RECURSIVE Total(_)
Total(nums) == IF nums = <<>> THEN 0 ELSE Head(nums).num + Total(Tail(nums))

\* the written value is the reduction of kind over the numeric values nums
IsReduction(kind, nums, v) ==
    CASE kind = "sum" ->
            v = IF \A k \in DOMAIN nums : nums[k].type = "Int"
                  THEN ValueInt(Total(nums)) ELSE ValueDouble(Total(nums), 1)
      [] kind = "avg" -> v.type = "Double" /\ v.num * Len(nums) = Total(nums) * v.den
      [] kind = "min" ->
            /\ v.type = "Double" /\ v.den = 1
            /\ \E k \in DOMAIN nums : nums[k].num = v.num
            /\ \A k \in DOMAIN nums : nums[k].num >= v.num
      [] OTHER ->
            /\ v.type = "Double" /\ v.den = 1
            /\ \E k \in DOMAIN nums : nums[k].num = v.num
            /\ \A k \in DOMAIN nums : nums[k].num <= v.num

\* the numeric rule wrote the reduction over the numeric matched values, or
\* nothing when there is none
NumericRuleSkipsOthers ==
    LET nums == SelectSeq(MatchedValues(inp.state, inp.agg), IsNumeric)
    IN  IF nums = <<>> THEN RootAfter = RootBefore
        ELSE /\ Has(RootAfter, inp.agg.Target)
             /\ IsReduction(inp.agg.Aggregation, nums, RootAfter[inp.agg.Target])

\* C17 as stated: for sum, avg, min and max a matched span whose source value
\* is not numeric is skipped: the written result is the reduction over the
\* numeric source values only, and nothing is written when none remains.
C17_TypeMismatchSkip ==
    phase = "attr-done" /\ inp.agg.Aggregation \in NumericKinds => NumericRuleSkipsOthers

\* what the code does give: the reduction is right when every matched source
\* value is numeric and the root alone carries subtrace.is_root_span = true
NumericWhenAllNumeric ==
    phase = "attr-done" /\ inp.agg.Aggregation \in NumericKinds
        /\ SoleRootLabel(inp.state)
        /\ (\A k \in DOMAIN MatchedValues(inp.state, inp.agg) :
               IsNumeric(MatchedValues(inp.state, inp.agg)[k]))
        => NumericRuleSkipsOthers

\* C18 as stated: an any rule writes on the root the source value of the
\* first member other than the root, in insertion order, that passes the
\* condition and has a non-null source attribute, type included.
C18_AnyPicksFirst ==
    phase = "attr-done" /\ inp.agg.Aggregation = "any"
        /\ MatchedValues(inp.state, inp.agg) # <<>> =>
        /\ Has(RootAfter, inp.agg.Target)
        /\ RootAfter[inp.agg.Target] = MatchedValues(inp.state, inp.agg)[1]

\* what the code does give: the same when the root alone carries
\* subtrace.is_root_span = true
AnyFirstWhenSoleRootLabel ==
    phase = "attr-done" /\ inp.agg.Aggregation = "any" /\ SoleRootLabel(inp.state)
        /\ MatchedValues(inp.state, inp.agg) # <<>> =>
        /\ Has(RootAfter, inp.agg.Target)
        /\ RootAfter[inp.agg.Target] = MatchedValues(inp.state, inp.agg)[1]

\* the subtrace with the root's attributes other than the label taken away
WithBareRoot(state) ==
    [state EXCEPT !.Spans[state.RootSpan].attrs = MapOf({<<IsRootKey, ValueBool(TRUE)>>})]

\* the attribute half of C14, which the code gives: the value an attribute
\* rule writes does not depend on the attributes of the labelled root
RootAttrsNotASource ==
    phase = "attr-done" =>
        LET bare == applyAttributeAggregation(WithBareRoot(inp.state), inp.agg)
            after == bare.Spans[bare.RootSpan].attrs
        IN  /\ Has(RootAfter, inp.agg.Target) /\ RootAfter # RootBefore
                <=> Has(after, inp.agg.Target)
            /\ Has(after, inp.agg.Target) => RootAfter[inp.agg.Target] = after[inp.agg.Target]

----------------------------------------------------------------------------
(* The aggregator: event rules                                              *)

DefaultMaxEvents == 10

\* ptrace.SpanEvent
Event(name, attrs) == [name |-> name, attrs |-> attrs]

\* EventAggregation; Source is the event name
EventAggregation(aggregation, source, condition, target, maxEvents) ==
    [Aggregation |-> aggregation, Source |-> source, Condition |-> condition,
     Target |-> target, MaxEvents |-> maxEvents]

\* SpanID.String: the 16 hex digits of the 8 bytes, for the ids 0..9
SpanIDString(id) == "000000000000000" \o ToString(id)

\* applyEventAggregation, the inner loop: the matching events of one span,
\* each with the span it was found on
RECURSIVE matchingOfSpan(_, _, _)
matchingOfSpan(span, agg, i) ==
    IF i > Len(span.events) THEN <<>>
    ELSE (IF /\ span.events[i].name = agg.Source
             /\ (agg.Condition = <<>> \/ evaluateEventCondition(span.events[i], agg.Condition))
            THEN <<[event |-> span.events[i], sourceSpan |-> span.id]>>
            ELSE <<>>)
         \o matchingOfSpan(span, agg, i + 1)

\* applyEventAggregation, the outer loop over state.Spans, from span k on
RECURSIVE matchingEvents(_, _, _)
matchingEvents(state, agg, k) ==
    IF k > Len(state.Spans) THEN <<>>
    ELSE matchingOfSpan(state.Spans[k], agg, 1) \o matchingEvents(state, agg, k + 1)

\* applyEventAggregation: the subtrace state after the rule
applyEventAggregation(state, agg) ==
    LET matching == matchingEvents(state, agg, 1)
        maxEvents == IF agg.MaxEvents <= 0 THEN DefaultMaxEvents ELSE agg.MaxEvents
        n == IF Len(matching) < maxEvents THEN Len(matching) ELSE maxEvents
        copies == [i \in 1..n |->
                     Event(matching[i].event.name,
                           Put(matching[i].event.attrs, "source_span_id",
                               ValueStr(SpanIDString(matching[i].sourceSpan))))]
    IN  IF Len(matching) = 0 THEN state
        ELSE CASE agg.Aggregation = "copy_event" ->
                    [state EXCEPT !.Spans[state.RootSpan].events = @ \o copies]
               [] agg.Aggregation = "count" ->
                    [state EXCEPT !.Spans[state.RootSpan].attrs =
                        Put(@, agg.Target, ValueInt(Len(matching)))]
               [] OTHER -> state

----------------------------------------------------------------------------
(* SpecEvent: applyEventAggregation on every labelled subtrace of at most   *)
(* MaxMembers spans and every event rule                                    *)

PaymentFailed == MapOf({<<"exception.type", ValueStr("PaymentFailedException")>>})

\* the event lists of a span: none, one exception, a timeout exception and a
\* payment exception, an event of another name, a burst of more payment
\* exceptions than DefaultMaxEvents
EventLists ==
    { <<>>,
      <<Event("exception", PaymentFailed)>>,
      <<Event("exception", MapOf({<<"exception.type", ValueStr("Timeout")>>})),
        Event("exception", Put(PaymentFailed, "k", ValueInt(0)))>>,
      <<Event("log", MapOf({}))>>,
      [k \in 1..(DefaultMaxEvents + 1) |->
          Event("exception", Put(PaymentFailed, "k", ValueInt(k)))] }

IsPaymentFailed == <<Atom("exception.type", "==", "str", "PaymentFailedException")>>

EventRules ==
    {EventAggregation(a, "exception", c, IF a = "count" THEN "t" ELSE "", m) :
        a \in {"copy_event", "count"}, c \in {<<>>, IsPaymentFailed}, m \in {0, 1, 2}}

EventInit ==
    /\ phase = "event-input"
    /\ \E n \in 1..MaxMembers : \E r \in 1..n :
       \E f \in [1..n -> EventLists] : \E agg \in EventRules :
          /\ agg.Aggregation = "count" => agg.MaxEvents = 0
          /\ inp = [state |-> [Spans |-> [i \in 1..n |->
                                  AggSpan(i, IF i = r THEN MapOf({<<IsRootKey, ValueBool(TRUE)>>})
                                             ELSE MapOf({}), f[i])],
                               RootSpan |-> r],
                    agg |-> agg]
    /\ out = Unassigned
    /\ Idle

ApplyEvent ==
    /\ phase = "event-input"
    /\ phase' = "event-done"
    /\ out' = applyEventAggregation(inp.state, inp.agg)
    /\ UNCHANGED <<inp, mvars>>

EventNext == ApplyEvent

SpecEvent == EventInit /\ [][EventNext]_vars

----------------------------------------------------------------------------
(* Claims about event rules (SpecEvent)                                     *)

\* the event has the name the rule asks for and passes its condition
EventMatches(e, agg) ==
    e.name = agg.Source /\ (agg.Condition = <<>> \/ evaluateCondition(e.attrs, agg.Condition))

\* the places <<span, event>> of the matching events of the members other
\* than the root
SourcePlaces(state, agg) ==
    {q \in (DOMAIN state.Spans) \X (1..(DefaultMaxEvents + 1)) :
        /\ q[1] # state.RootSpan
        /\ q[2] \in DOMAIN state.Spans[q[1]].events
        /\ EventMatches(state.Spans[q[1]].events[q[2]], agg)}

\* the rank of a place in insertion order: span by span, event by event
PlaceRank(S, q) ==
    1 + Cardinality({x \in S : x[1] < q[1] \/ (x[1] = q[1] /\ x[2] < q[2])})

\* the root has an event that matches the rule
RootMatches(state, agg) ==
    \E j \in DOMAIN state.Spans[state.RootSpan].events :
        EventMatches(state.Spans[state.RootSpan].events[j], agg)

\* the subtrace with the root's events taken away
WithoutRootEvents(state) == [state EXCEPT !.Spans[state.RootSpan].events = <<>>]

\* C14 as stated: the events of the chosen root contribute nothing to an
\* event rule: the root ends with what the rule gives on the same subtrace
\* with a root without events, after the root's own events.
C14_RootNotASource ==
    phase = "event-done" =>
        LET bare == applyEventAggregation(WithoutRootEvents(inp.state), inp.agg)
        IN  /\ out.Spans[out.RootSpan].attrs = bare.Spans[bare.RootSpan].attrs
            /\ out.Spans[out.RootSpan].events =
                  inp.state.Spans[inp.state.RootSpan].events \o bare.Spans[bare.RootSpan].events

\* the copy_event rule has appended to the root the clones of the first
\* matching events of the other members, at most the cap, each tagged with
\* the id of its span, and has changed nothing else
CopiedFromOthers ==
    LET S == SourcePlaces(inp.state, inp.agg)
        cap == IF inp.agg.MaxEvents <= 0 THEN DefaultMaxEvents ELSE inp.agg.MaxEvents
        before == inp.state.Spans[inp.state.RootSpan].events
        after == out.Spans[out.RootSpan].events
    IN  /\ Len(after) = Len(before) + (IF Cardinality(S) < cap THEN Cardinality(S) ELSE cap)
        /\ SubSeq(after, 1, Len(before)) = before
        /\ \A q \in S : PlaceRank(S, q) <= cap =>
              LET clone == after[Len(before) + PlaceRank(S, q)]
                  e == inp.state.Spans[q[1]].events[q[2]]
              IN  /\ clone.name = e.name
                  /\ clone.attrs = Put(e.attrs, "source_span_id",
                                       ValueStr(SpanIDString(inp.state.Spans[q[1]].id)))
        /\ \A i \in DOMAIN out.Spans : i # out.RootSpan => out.Spans[i] = inp.state.Spans[i]
        /\ out.Spans[out.RootSpan].attrs = inp.state.Spans[inp.state.RootSpan].attrs

\* C20 as stated: a copy_event rule appends to the root at most max_events
\* (default 10) events, the clones of the first matching events in insertion
\* order, each carrying source_span_id of the span it came from; the source
\* spans' own events are left unchanged.
C20_CopyEventBoundedTagged ==
    phase = "event-done" /\ inp.agg.Aggregation = "copy_event" => CopiedFromOthers

\* what the code does give: the same whenever the root itself has no
\* matching event
CopyEventWhenRootHasNone ==
    phase = "event-done" /\ inp.agg.Aggregation = "copy_event"
        /\ ~RootMatches(inp.state, inp.agg) => CopiedFromOthers

----------------------------------------------------------------------------
(* SpecCompute: computeAggregation for the array rules on every list of at  *)
(* most MaxValuesLen values, on two lists longer than DefaultMaxValues, and *)
(* every max_values                                                         *)

MaxValuesLen == 3

\* Int 1 and Str "1" have the same canonical string, Int 2 and Double 2 too
ComputeValues == {ValueInt(1), ValueStr("1"), ValueStr("a"), ValueInt(2), ValueDouble(2, 1)}

LongValues ==
    { [k \in 1..(DefaultMaxValues + 1) |-> ValueInt(k)],
      [k \in 1..(DefaultMaxValues + 1) |-> ValueInt(k % 3)] }

ComputeInit ==
    /\ phase = "compute-input"
    /\ \E a \in ArrayKinds : \E m \in {-1, 0, 1, 2} :
       \E v \in LongValues \cup UNION {[1..n -> ComputeValues] : n \in 0..MaxValuesLen} :
          inp = [aggType |-> a, values |-> v, maxValues |-> m]
    /\ out = Unassigned
    /\ Idle

Compute ==
    /\ phase = "compute-input"
    /\ phase' = "compute-done"
    /\ out' = computeAggregation(inp.aggType, inp.values, Len(inp.values), inp.maxValues)
    /\ UNCHANGED <<inp, mvars>>

ComputeNext == Compute

SpecCompute == ComputeInit /\ [][ComputeNext]_vars

----------------------------------------------------------------------------
(* Claims about the array rules (SpecCompute)                               *)

\* the places of values whose canonical string no earlier value has
FirstOccurrences(values) ==
    {i \in DOMAIN values : \A j \in 1..(i - 1) : AsString(values[j]) # AsString(values[i])}

\* C19: with cap = max_values, or 100 when max_values is unset or not
\* positive, an all rule gives the array of the first min(n, cap) values in
\* insertion order; an all_distinct rule gives an array without two values
\* of the same canonical string, holding the first occurrences in their
\* order, cap of them at most.
C19_ArraysBoundedOrdered ==
    phase = "compute-done" =>
        LET cap == IF inp.maxValues <= 0 THEN 100 ELSE inp.maxValues
            n == Len(inp.values)
            F == FirstOccurrences(inp.values)
        IN  /\ out.type = "Slice"
            /\ Len(out.items) <= cap
            /\ inp.aggType = "all" =>
                  out.items = SubSeq(inp.values, 1, IF n < cap THEN n ELSE cap)
            /\ inp.aggType = "all_distinct" =>
                  /\ \A k, l \in DOMAIN out.items :
                        k # l => AsString(out.items[k]) # AsString(out.items[l])
                  /\ Len(out.items) = IF Cardinality(F) < cap THEN Cardinality(F) ELSE cap
                  /\ \A i \in F : Cardinality({j \in F : j <= i}) <= cap =>
                        out.items[Cardinality({j \in F : j <= i})] = inp.values[i]

\* an all_distinct rule without max_values over more distinct values than
\* the default cap
C19_Witness ==
    /\ phase = "compute-done"
    /\ inp.aggType = "all_distinct" /\ inp.maxValues = 0
    /\ Cardinality(FirstOccurrences(inp.values)) > DefaultMaxValues
    /\ Len(out.items) = DefaultMaxValues

----------------------------------------------------------------------------
(* SpecCond: evaluateCondition on every condition of at most MaxAtoms atoms *)
(* joined by " and " / " or ", and on every single atom                     *)

MaxAtoms == 3

\* the keys asked for by the atoms of a joined condition, one per place
CondKeys == <<"a", "b", "c", "d">>

\* what an atom of a joined condition asks of its key
CondAsks == { [op |-> "!=", vtype |-> "nil", val |-> ""],
              [op |-> "==", vtype |-> "str", val |-> "s"],
              [op |-> "==", vtype |-> "bool", val |-> "true"] }

\* the values of a key in the attribute map; Absent: the key is not there
Absent == Val("Absent", 0, 1, "", <<>>)
CondValues == {Absent, ValueStr("s"), ValueBool(TRUE)}

\* every atom the grammar allows on key "k", and the values it is tried on
SingleAtoms ==
    {Atom("k", o, v[1], v[2]) :
        o \in {"==", "!="},
        v \in {<<"nil", "">>, <<"str", "s">>, <<"str", "">>,
               <<"bool", "true">>, <<"bool", "false">>}}
SingleValues ==
    {Absent, ValueStr("s"), ValueStr("t"), ValueStr(""), ValueBool(TRUE),
     ValueBool(FALSE), ValueInt(1)}

\* the attribute map holding the keys of f that are not Absent
AttrsOf(f) == [k \in {x \in DOMAIN f : f[x] # Absent} |-> f[k]]

CondInit ==
    /\ phase = "cond-input"
    /\ \/ \E n \in 2..MaxAtoms :
          \E asks \in [1..n -> CondAsks] : \E joins \in [1..(n - 1) -> {"and", "or"}] :
          \E vals \in [1..n -> CondValues] :
             inp = [attrs |-> AttrsOf([k \in {CondKeys[i] : i \in 1..n} |->
                                          vals[CHOOSE i \in 1..n : CondKeys[i] = k]]),
                    text |-> [i \in 1..(2 * n - 1) |->
                                 IF i % 2 = 1
                                   THEN Atom(CondKeys[(i + 1) \div 2], asks[(i + 1) \div 2].op,
                                             asks[(i + 1) \div 2].vtype, asks[(i + 1) \div 2].val)
                                 ELSE IF joins[i \div 2] = "and" THEN AndWord ELSE OrWord]]
       \/ \E a \in SingleAtoms : \E v \in SingleValues :
             inp = [attrs |-> AttrsOf([k \in {"k"} |-> v]), text |-> <<a>>]
    /\ out = Unassigned
    /\ Idle

Evaluate ==
    /\ phase = "cond-input"
    /\ phase' = "cond-done"
    /\ out' = [result |-> evaluateCondition(inp.attrs, inp.text)]
    /\ UNCHANGED <<inp, mvars>>

CondNext == Evaluate

SpecCond == CondInit /\ [][CondNext]_vars

----------------------------------------------------------------------------
(* Claims about conditions (SpecCond)                                       *)

\* the value of one atom as the grammar's semantics give it
AtomValue(attrs, a) ==
    LET exists == a.key \in DOMAIN attrs
    IN  CASE a.vtype = "nil" /\ a.op = "!=" -> exists
          [] a.vtype = "nil" /\ a.op = "==" -> ~exists
          [] a.vtype = "str" /\ a.op = "==" ->
                exists /\ attrs[a.key].type = "Str" /\ attrs[a.key].str = a.val
          [] a.vtype = "str" /\ a.op = "!=" ->
                ~(exists /\ attrs[a.key].type = "Str" /\ attrs[a.key].str = a.val)
          [] a.vtype = "bool" /\ a.op = "==" ->
                exists /\ attrs[a.key].type = "Bool"
                       /\ (attrs[a.key].num = 1 <=> a.val = "true")
          [] OTHER -> TRUE

\* the places of the atoms of a text, and the number of " or " before a place
AtomPlaces(text) == {i \in DOMAIN text : text[i].word = "atom"}
OrsBefore(text, i) == Cardinality({j \in 1..(i - 1) : text[j].word = "or"})

\* the value of a text as the grammar gives it: a disjunction, over the
\* stretches between the " or ", of the conjunction of their atoms
GrammarValue(attrs, text) ==
    \E d \in 0..Len(text) :
        /\ \E i \in AtomPlaces(text) : OrsBefore(text, i) = d
        /\ \A i \in AtomPlaces(text) : OrsBefore(text, i) = d => AtomValue(attrs, text[i])

\* C21 as stated: a condition mixing " and " and " or " is evaluated as a
\* disjunction of conjunctions of its atoms, so "A or B and C" gives
\* A or (B and C).
C21_ConditionPrecedence ==
    phase = "cond-done" /\ Len(inp.text) > 1 =>
        out.result = GrammarValue(inp.attrs, inp.text)

\* what the code does give: the same for the conditions that use one of the
\* two connectives only
PrecedenceWhenUnmixed ==
    phase = "cond-done" /\ Len(inp.text) > 1
        /\ (\/ \A i \in DOMAIN inp.text : inp.text[i].word # "or"
            \/ \A i \in DOMAIN inp.text : inp.text[i].word # "and")
        => out.result = GrammarValue(inp.attrs, inp.text)

\* C22 as stated: an atom is true iff its key exists (!= nil), is absent
\* (== nil), exists with the string value s (== "s"), is absent or has
\* another string value (!= "s"), exists with the boolean value (== true,
\* == false); a text matching no pattern is true.
C22_AtomSemantics ==
    phase = "cond-done" /\ Len(inp.text) = 1 =>
        out.result = AtomValue(inp.attrs, inp.text[1])

\* what the code does give: the same whenever the key is absent or holds a
\* value of the type the atom names
AtomsWhenTypesAgree ==
    phase = "cond-done" /\ Len(inp.text) = 1
        /\ (LET a == inp.text[1]
            IN  \/ a.key \notin DOMAIN inp.attrs
                \/ a.vtype = "nil"
                \/ a.vtype = "str" /\ inp.attrs[a.key].type = "Str"
                \/ a.vtype = "bool" /\ inp.attrs[a.key].type = "Bool")
        => out.result = AtomValue(inp.attrs, inp.text[1])

----------------------------------------------------------------------------
(* SpecDrain: Shutdown and the sweeper on a buffer that holds two traces,   *)
(* with no ConsumeTraces call in flight or to come                          *)

MaxDrainLen == 2
DrainTraceIDs == {1, 2}

\* the spans of the buffered traces: a SERVER root, its SERVER child in
\* another service (a second subtrace of the trace), a span naming itself as
\* parent
DrainPool ==
    { [id |-> 1, parent |-> EmptyID, kind |-> "SERVER", res |-> "resA", ts |-> 0,
       sid |-> NoAttr, isRoot |-> NoAttr],
      [id |-> 2, parent |-> 1, kind |-> "SERVER", res |-> "resB", ts |-> 0,
       sid |-> NoAttr, isRoot |-> NoAttr],
      [id |-> 4, parent |-> 4, kind |-> "INTERNAL", res |-> "resA", ts |-> 0,
       sid |-> NoAttr, isRoot |-> NoAttr] }

DrainShapes == UNION {[1..n -> DrainPool] : n \in 0..MaxDrainLen}

\* the trace state Buffer.Add built from the shapes q, entries base+1, ...
DrainTrace(q, base) ==
    IF q = <<>> THEN NoTrace
    ELSE [Spans |-> [i \in 1..Len(q) |->
                        Entry(base + i, q[i].id, q[i].parent, q[i].kind, q[i].res,
                              q[i].ts, q[i].sid, q[i].isRoot)],
          FirstSeen |-> 0]

\* the processor after Start and some returned ConsumeTraces calls whose
\* traces stayed under the cap; inp keeps the buffer as it was
DrainInit ==
    /\ phase = "run"
    /\ out = Unassigned
    /\ \E q1 \in DrainShapes, q2 \in DrainShapes :
          /\ buffer = [t \in DrainTraceIDs |->
                          IF t = 1 THEN DrainTrace(q1, 0) ELSE DrainTrace(q2, Len(q1))]
          /\ nextTok = Len(q1) + Len(q2)
          /\ fwd = [k \in 1..(Len(q1) + Len(q2)) |-> 0]
    /\ inp = buffer
    /\ now = 0
    /\ proc = [p \in Procs |-> Resting(CASE p = "cons" -> "idle"
                                         [] p = "sweep" -> "wait"
                                         [] p = "shut" -> "none")]
    /\ lastBatch = NoBatch
    /\ dsErred = {}
    /\ crashed = FALSE
    /\ cfg = [errorMode |-> "ignore"]

DrainNext ==
    \/ \E p \in Procs : FlushTake(p)
    \/ \E p \in Procs : \E s \in proc[p].pending : \E err \in BOOLEAN : Forward(p, s, err)
    \/ SweepTick
    \/ SweepDone
    \/ SweepExit
    \/ ShutdownClose
    \/ ShutdownDrain
    \/ ShutdownReturn
    \/ Tick

SpecDrain == DrainInit /\ [][DrainNext]_vars

\* the trace the buffered entry k belonged to
TraceOf(k) == CHOOSE t \in DOMAIN inp : inp[t] # NoTrace /\ k \in ToksOf(inp[t].Spans)

\* C23: Shutdown lists and flushes the buffer only after the sweeper has
\* exited; with no ConsumeTraces call during or after Shutdown, when Shutdown
\* has returned it returned nil, no trace id has a state in the buffer, and
\* every entry that was buffered has been forwarded unless the flush of its
\* own trace got an error from downstream (an error on one trace gives up
\* nothing of another trace).
C23_ShutdownDrains ==
    phase = "run" =>
        /\ proc["shut"].pc \in {"flushing", "done"} => proc["sweep"].pc = "exited"
        /\ proc["shut"].pc = "done" =>
              /\ proc["shut"].ret = "nil"
              /\ \A t \in DOMAIN buffer : buffer[t] = NoTrace
              /\ \A k \in DOMAIN fwd : fwd[k] >= 1 \/ TraceOf(k) \in dsErred

\* Shutdown has returned after draining two traces itself: downstream
\* refused a batch of one, and every entry of the other one was forwarded
C23_Witness ==
    /\ phase = "run" /\ proc["shut"].pc = "done" /\ proc["shut"].ret = "nil"
    /\ \A t \in DOMAIN buffer : inp[t] # NoTrace /\ buffer[t] = NoTrace
    /\ now = 0
    /\ \E t \in DOMAIN inp :
          /\ dsErred = {t}
          /\ \E k \in DOMAIN fwd : TraceOf(k) = t /\ fwd[k] = 0
          /\ \A k \in DOMAIN fwd : TraceOf(k) # t => fwd[k] = 1

----------------------------------------------------------------------------
(* Further claims about the running processor (Spec)                        *)

\* a step in which Buffer.Add put an entry under trace id t
Inserted(t) ==
    /\ buffer'[t] # NoTrace
    /\ buffer[t] = NoTrace \/ Len(buffer'[t].Spans) > Len(buffer[t].Spans)

\* the trace state under t has reached max_spans_per_trace
AtCap(t) == buffer[t] # NoTrace /\ Len(buffer[t].Spans) >= MaxSpansPerTrace

\* C24 as stated: a span inserted under a trace id whose state has reached
\* max_spans_per_trace starts a fresh state (it is the only entry of the
\* state it is in), so it is flushed apart from the entries that filled the
\* cap.
C24_CapMidBatch ==
    [][\A t \in TraceIDs : AtCap(t) /\ Inserted(t) => Len(buffer'[t].Spans) = 1]_vars

\* what the code does give: no ConsumeTraces call leaves behind a trace state
\* that has reached the cap, so the spans of a later call start a fresh state
UnderCapBetweenCalls ==
    phase = "run" /\ proc["cons"].pc \in {"returned", "idle"} /\ ~crashed =>
        \A t \in TraceIDs : ~AtCap(t)

----------------------------------------------------------------------------
(* SpecFlush: flushTrace run twice on one trace state and one rule list,    *)
(* each run ranging over its own subtrace map, then run again on the        *)
(* batches the first run forwarded                                          *)

MaxFlushLen == 3
FlushTraceID == 1
Runs == {"a", "b"}

\* the spans of the trace, with their scope, attributes and events: a SERVER
\* root; an INTERNAL child of it recorded by another instrumentation scope;
\* a SERVER child of the root in another service; a span of that service
\* labelled by an upstream processor; a CLIENT span whose parent is missing;
\* a span naming itself as parent
FlushPool ==
    { [id |-> 1, parent |-> EmptyID, kind |-> "SERVER", res |-> "resA", ts |-> 1,
       sid |-> NoAttr, isRoot |-> NoAttr, scope |-> "scope1",
       attrs |-> MapOf({<<"v", ValueInt(1)>>}), events |-> <<>>],
      [id |-> 2, parent |-> 1, kind |-> "INTERNAL", res |-> "resA", ts |-> 2,
       sid |-> NoAttr, isRoot |-> NoAttr, scope |-> "scope2",
       attrs |-> MapOf({<<"v", ValueInt(2)>>}),
       events |-> <<Event("exception", PaymentFailed)>>],
      [id |-> 3, parent |-> 1, kind |-> "SERVER", res |-> "resB", ts |-> 2,
       sid |-> NoAttr, isRoot |-> NoAttr, scope |-> "scope1",
       attrs |-> MapOf({<<"v", ValueInt(3)>>}), events |-> <<>>],
      [id |-> 4, parent |-> 3, kind |-> "INTERNAL", res |-> "resB", ts |-> 3,
       sid |-> Attr(UpstreamSubtraceID), isRoot |-> Attr(TRUE), scope |-> "scope1",
       attrs |-> MapOf({<<"v", ValueInt(4)>>}),
       events |-> <<Event("exception", PaymentFailed)>>],
      [id |-> 5, parent |-> 9, kind |-> "CLIENT", res |-> "resA", ts |-> 0,
       sid |-> NoAttr, isRoot |-> NoAttr, scope |-> "scope1",
       attrs |-> MapOf({}), events |-> <<>>],
      [id |-> 6, parent |-> 6, kind |-> "INTERNAL", res |-> "resA", ts |-> 0,
       sid |-> NoAttr, isRoot |-> NoAttr, scope |-> "scope1",
       attrs |-> MapOf({}), events |-> <<>>] }

\* SpanEntry with everything flushTrace and the aggregator read: the entry of
\* the assigner plus Scope, Span.Events() and (in attrs) the attributes other
\* than the two the processor writes, which stay in sid and isRoot
FullEntry(tok, sh) == [tok |-> tok] @@ sh

\* the rule lists of the configuration: none (createDefaultConfig), or two
\* attribute rules and one event rule
FlushRuleLists ==
    { [attrAggs |-> <<>>, eventAggs |-> <<>>],
      [attrAggs |-> <<AttributeAggregation("count", "", <<>>, "n", 0),
                      AttributeAggregation("sum", "v", <<>>, "total", 0)>>,
       eventAggs |-> <<EventAggregation("copy_event", "exception", <<>>, "", 0)>>] }

\* Span.Attributes() of a labelled entry as the aggregator reads it:
\* subtrace.is_root_span is among them when the span carries it (no rule of
\* FlushRuleLists reads subtrace.id)
spanAttributes(e) ==
    [e EXCEPT !.attrs = IF e.isRoot = NoAttr THEN @
                        ELSE Put(@, IsRootKey, ValueBool(e.isRoot[1]))]

\* the loops of Aggregator.Apply over a.attrAggs and a.eventAggs, from rule k on
RECURSIVE applyAttrAggs(_, _, _)
applyAttrAggs(state, aggs, k) ==
    IF k > Len(aggs) THEN state
    ELSE applyAttrAggs(applyAttributeAggregation(state, aggs[k]), aggs, k + 1)

RECURSIVE applyEventAggs(_, _, _)
applyEventAggs(state, aggs, k) ==
    IF k > Len(aggs) THEN state
    ELSE applyEventAggs(applyEventAggregation(state, aggs[k]), aggs, k + 1)

\* a mutant of Aggregator.Apply: the event rules run before the attribute rules
Apply_EventsFirst(state, rules) ==
    IF state.RootSpan = 0 THEN state
    ELSE applyAttrAggs(applyEventAggs(state, rules.eventAggs, 1), rules.attrAggs, 1)

\* Aggregator.Apply
Apply(state, rules) ==
    IF state.RootSpan = 0 THEN state
    ELSE applyEventAggs(applyAttrAggs(state, rules.attrAggs, 1), rules.eventAggs, 1)

\* flushTrace, processor.go:155-165: the batch of one subtrace, one
\* ResourceSpans and one ScopeSpans copied from the first entry, every span
\* of the subtrace appended to that ScopeSpans
buildBatch(state) ==
    [resource |-> state.Spans[1].res, scope |-> state.Spans[1].scope,
     spans |-> state.Spans, RootSpan |-> state.RootSpan,
     SubtraceID |-> state.SubtraceID, TraceID |-> state.TraceID]

\* one flushTrace call in progress: the span data the entries point to, the
\* subtrace states its loop has not reached, the batches it has forwarded
FlushRun(heap, todo) == [heap |-> heap, todo |-> todo, sent |-> <<>>]
NoRun == [absent |-> TRUE]

\* a mutant of flushSubtrace: subtrace.id is generated from the position of
\* the subtrace in the loop
flushSubtrace_IdByPosition(run, s, rules) ==
    LET cur == [s EXCEPT !.Spans = [i \in DOMAIN s.Spans |-> run.heap[s.Spans[i].tok]],
                         !.SubtraceID = generateSubtraceID(s.TraceID, Len(run.sent))]
        labelled == labelSpans(determineRootSpan(cur))
        read == [labelled EXCEPT !.Spans = [i \in DOMAIN @ |-> spanAttributes(@[i])]]
        done == Apply(read, rules)
    IN  [heap |-> [k \in DOMAIN run.heap |->
                      IF \E i \in DOMAIN done.Spans : done.Spans[i].tok = k
                        THEN done.Spans[CHOOSE i \in DOMAIN done.Spans : done.Spans[i].tok = k]
                        ELSE run.heap[k]],
         todo |-> run.todo \ {s},
         sent |-> Append(run.sent, buildBatch(done))]

\* flushTrace, processor.go:139-170, one pass of the loop over the subtraces:
\* the entries of s point to the span data, which determineRootSpan and
\* Apply read and the labelling and Apply write in place; the batch is a copy
\* of the data at that moment
flushSubtrace(run, s, rules) ==
    LET cur == [s EXCEPT !.Spans = [i \in DOMAIN s.Spans |-> run.heap[s.Spans[i].tok]]]
        labelled == labelSpans(determineRootSpan(cur))
        read == [labelled EXCEPT !.Spans = [i \in DOMAIN @ |-> spanAttributes(@[i])]]
        done == Apply(read, rules)
    IN  [heap |-> [k \in DOMAIN run.heap |->
                      IF \E i \in DOMAIN done.Spans : done.Spans[i].tok = k
                        THEN done.Spans[CHOOSE i \in DOMAIN done.Spans : done.Spans[i].tok = k]
                        ELSE run.heap[k]],
         todo |-> run.todo \ {s},
         sent |-> Append(run.sent, buildBatch(done))]

\* the start of flushTrace on a trace state: assignSubtraces
startFlush(traceState) ==
    FlushRun([k \in ToksOf(traceState.Spans) |->
                 traceState.Spans[CHOOSE i \in DOMAIN traceState.Spans :
                                      traceState.Spans[i].tok = k]],
             assignSubtraces(traceState, FlushTraceID).subtraces)

\* ConsumeTraces on the batches in the order given, processor.go:76-95, into
\* an empty buffer with a cap above their size: Buffer.Add copies each span
\* with the Resource and the Scope of the batch it came in
RECURSIVE refeed(_, _)
refeed(batches, k) ==
    IF k > Len(batches) THEN <<>>
    ELSE [i \in DOMAIN batches[k].spans |->
             [batches[k].spans[i] EXCEPT !.res = batches[k].resource,
                                         !.scope = batches[k].scope]]
         \o refeed(batches, k + 1)

FlushInit ==
    /\ phase = "flush-input"
    /\ \E n \in 1..MaxFlushLen : \E f \in [1..n -> FlushPool] : \E rules \in FlushRuleLists :
          inp = [state |-> [Spans |-> [i \in 1..n |-> FullEntry(i, f[i])], FirstSeen |-> 0],
                 rules |-> rules]
    /\ out = Unassigned
    /\ Idle

\* both runs take the trace state and assign its subtraces; on a parent
\* cycle assignSpan never returns
FlushAssign ==
    /\ phase = "flush-input"
    /\ IF assignSubtraces(inp.state, FlushTraceID).overflow
         THEN phase' = "flush-crashed" /\ out' = out
         ELSE /\ phase' = "flush-run"
              /\ out' = [a |-> startFlush(inp.state), b |-> startFlush(inp.state),
                         again |-> NoRun]
    /\ UNCHANGED <<inp, mvars>>

\* run r handles the subtrace its range over the map yields next; downstream
\* accepts the batch
FlushOne(r) ==
    /\ phase = "flush-run"
    /\ out[r] # NoRun
    /\ \E s \in out[r].todo : out' = [out EXCEPT ![r] = flushSubtrace(out[r], s, inp.rules)]
    /\ UNCHANGED <<phase, inp, mvars>>

\* the batches run a forwarded come back through ConsumeTraces, in the order
\* they were forwarded, and the trace is flushed again
Refeed ==
    /\ phase = "flush-run"
    /\ out.a.todo = {} /\ out.b.todo = {} /\ out.again = NoRun
    /\ out' = [out EXCEPT !.again =
                  startFlush([Spans |-> refeed(out.a.sent, 1), FirstSeen |-> 0])]
    /\ UNCHANGED <<phase, inp, mvars>>

FlushNext ==
    \/ FlushAssign
    \/ \E r \in Runs \cup {"again"} : FlushOne(r)
    \/ Refeed

SpecFlush == FlushInit /\ [][FlushNext]_vars

\* both runs of flushTrace have returned
BothFlushed == phase = "flush-run" /\ out.a.todo = {} /\ out.b.todo = {}

\* the subtrace ids of the batches a run forwarded, in the order of the calls
ForwardOrder(run) == [i \in DOMAIN run.sent |-> run.sent[i].SubtraceID]

\* C26 as stated: two flushes of identical trace states forward their
\* subtraces downstream in the same order.
C26_DeterministicOrder ==
    BothFlushed => ForwardOrder(out.a) = ForwardOrder(out.b)

\* the batch in which a run forwarded entry k
BatchOf(run, k) ==
    run.sent[CHOOSE i \in DOMAIN run.sent : k \in ToksOf(run.sent[i].spans)]

Forwarded(run) == UNION {ToksOf(run.sent[i].spans) : i \in DOMAIN run.sent}

\* the root span of a batch
RootOf(batch) == batch.spans[batch.RootSpan]

\* C27: two runs that flush the same trace state with the same rule list, in
\* whatever order each handles the subtraces, forward every span in a batch
\* of the same spans, with the same subtrace.id on each, the same span as
\* root, and the same attributes and events on that root.
C27_DeterministicEnrichment ==
    phase = "flush-run" =>
        \A k \in Forwarded(out.a) \cap Forwarded(out.b) :
            LET x == BatchOf(out.a, k)
                y == BatchOf(out.b, k)
            IN  /\ [i \in DOMAIN x.spans |-> x.spans[i].tok]
                     = [i \in DOMAIN y.spans |-> y.spans[i].tok]
                /\ \A i \in DOMAIN x.spans : x.spans[i].sid = y.spans[i].sid
                /\ x.RootSpan = y.RootSpan /\ x.RootSpan # 0
                /\ RootOf(x).isRoot = Attr(TRUE) /\ RootOf(y).isRoot = Attr(TRUE)
                /\ RootOf(x).attrs = RootOf(y).attrs
                /\ RootOf(x).events = RootOf(y).events

\* the two runs handled two subtraces in different orders, under rules that
\* wrote a count and copied an event to a root
C27_Witness ==
    /\ BothFlushed
    /\ Len(out.a.sent) = 2
    /\ ForwardOrder(out.a) # ForwardOrder(out.b)
    /\ \E i \in DOMAIN out.a.sent :
          /\ Len(out.a.sent[i].spans) = 2
          /\ Has(RootOf(out.a.sent[i]).attrs, "n")
          /\ Len(RootOf(out.a.sent[i]).events) = 1

\* the second flush, of the batches fed back, has returned
Reflushed == phase = "flush-run" /\ out.again # NoRun /\ out.again.todo = {}

\* the value of subtrace.id on entry k as a run forwarded it
IdOf(run, k) ==
    LET batch == BatchOf(run, k)
    IN  batch.spans[CHOOSE i \in DOMAIN batch.spans : batch.spans[i].tok = k].sid

\* the second flush forwards the spans in the groups of the first
SameGroups ==
    \A k \in Forwarded(out.a) :
        /\ k \in Forwarded(out.again)
        /\ ToksOf(BatchOf(out.again, k).spans) = ToksOf(BatchOf(out.a, k).spans)

\* C28 as stated: after the batches of one flush were fed back and flushed
\* again, every span carries the subtrace.id the first flush gave it and the
\* spans are grouped as in the first flush.
C28_ReflushIdempotent ==
    Reflushed => SameGroups /\ \A k \in Forwarded(out.a) : IdOf(out.again, k) = IdOf(out.a, k)

\* the first flush forwarded its subtraces in the order of their counters
InCounterOrder(run) ==
    \A i, j \in DOMAIN run.sent :
        i < j => run.sent[i].SubtraceID[2] < run.sent[j].SubtraceID[2]

\* what the code does give: the groups are those of the first flush, and the
\* ids are unchanged when the first flush happened to forward the subtraces
\* in the order of their counters
ReflushWhenInCounterOrder ==
    Reflushed =>
        /\ SameGroups
        /\ InCounterOrder(out.a) =>
              \A k \in Forwarded(out.a) : IdOf(out.again, k) = IdOf(out.a, k)

\* the groups of entries assignSubtraces makes of the trace state
SubtraceGroups == {ToksOf(s.Spans) : s \in assignSubtraces(inp.state, FlushTraceID).subtraces}

\* run a forwards every subtrace of the trace state in one call of its own:
\* each batch holds the spans of one subtrace, no subtrace is forwarded
\* twice, and none is left when flushTrace returns
OneCallPerSubtrace ==
    /\ \A i \in DOMAIN out.a.sent : ToksOf(out.a.sent[i].spans) \in SubtraceGroups
    /\ \A i, j \in DOMAIN out.a.sent :
          i # j => ToksOf(out.a.sent[i].spans) # ToksOf(out.a.sent[j].spans)
    /\ out.a.todo = {} => {ToksOf(out.a.sent[i].spans) : i \in DOMAIN out.a.sent} = SubtraceGroups

\* the scope entry of the batch is the scope entry k arrived under
UnderOwnScope(batch) ==
    \A i \in DOMAIN batch.spans :
        \A j \in DOMAIN inp.state.Spans :
            inp.state.Spans[j].tok = batch.spans[i].tok =>
                batch.scope = inp.state.Spans[j].scope

\* C29 as stated: every subtrace of a flushed trace is forwarded in exactly
\* one downstream call, whose batch (one resource entry, one scope entry)
\* holds exactly the spans of the subtrace, and every span of the batch
\* arrived under the scope of the batch's scope entry.
C29_OneBatchPerSubtrace ==
    phase = "flush-run" =>
        /\ OneCallPerSubtrace
        /\ \A i \in DOMAIN out.a.sent : UnderOwnScope(out.a.sent[i])

\* what the code does give: one call per subtrace, with the spans of the
\* subtrace under the scope of the first of them
OneBatchUnderFirstScope ==
    phase = "flush-run" =>
        /\ OneCallPerSubtrace
        /\ \A i \in DOMAIN out.a.sent : UnderOwnScope([out.a.sent[i] EXCEPT !.spans = <<@[1]>>])

----------------------------------------------------------------------------
(* Subtrace ids across the flushes of one trace id (Spec, SpecFlush)        *)

\* C30 as stated, for two subtraces forwarded one after the other: a batch
\* handed downstream never carries the subtrace.id of the batch of other
\* spans of the same trace id handed downstream before it, whether the two
\* come from one flush or from two flushes of the trace id.
C30_UniqueSubtraceIDs ==
    [][(/\ phase = "run" /\ lastBatch # NoBatch /\ lastBatch' # NoBatch
        /\ lastBatch'.TraceID = lastBatch.TraceID
        /\ ToksOf(lastBatch'.Spans) # ToksOf(lastBatch.Spans))
       => lastBatch'.SubtraceID # lastBatch.SubtraceID]_vars

\* what the code does give: the subtraces of one flush carry different ids
UniqueWithinFlush ==
    phase = "flush-run" =>
        \A r \in DOMAIN out : out[r] # NoRun =>
            \A i, j \in DOMAIN out[r].sent :
                i # j => out[r].sent[i].SubtraceID # out[r].sent[j].SubtraceID

----------------------------------------------------------------------------
(* Claims about flushTrace, the triggers of a flush and the buffer lock     *)
(* (Spec)                                                                   *)

\* the step of goroutine p is the start of flushTrace for the next id it
\* listed
TakesNext(p) ==
    /\ proc[p].pc = "flushing" /\ proc[p].pending = {} /\ proc[p].ids # <<>>
    /\ proc'[p].ids = Tail(proc[p].ids)

\* C31: flushTrace for a trace id that has no state in the buffer returns nil
\* (nothing is logged as an error, the process goes on), hands nothing
\* downstream and leaves the buffer as it was.
C31_EmptyFlushIsSuccess ==
    [][\A p \in Procs :
          phase = "run" /\ TakesNext(p) /\ buffer[Head(proc[p].ids)] = NoTrace =>
              /\ buffer' = buffer
              /\ proc'[p].pending = {} /\ proc'[p].sawErr = proc[p].sawErr
              /\ fwd' = fwd /\ lastBatch' = lastBatch
              /\ ~crashed']_vars

\* the sweeper listed the trace as expired, ConsumeTraces took it first, and
\* the sweeper's flushTrace found no state: the sweeper is through its list
\* with nothing forwarded, while ConsumeTraces holds every span inserted
C31_Witness ==
    /\ phase = "run" /\ ~crashed
    /\ proc["sweep"].pc = "flushing" /\ proc["sweep"].ids = <<>> /\ proc["sweep"].pending = {}
    /\ ~proc["sweep"].sawErr
    /\ lastBatch = NoBatch /\ nextTok >= 1
    /\ \A k \in 1..nextTok : HeldBy(k) = {"cons"}
    /\ \A t \in TraceIDs : buffer[t] = NoTrace

----------------------------------------------------------------------------
(* The count event rule (SpecEvent)                                         *)

\* the root carries under the rule's target the integer number of matching
\* events of the other members; with no such event it carries the number 0
\* or no target at all
CountsOthers ==
    LET n == Cardinality(SourcePlaces(inp.state, inp.agg))
        root == out.Spans[out.RootSpan]
    IN  IF n >= 1
          THEN Has(root.attrs, inp.agg.Target) /\ root.attrs[inp.agg.Target] = ValueInt(n)
          ELSE Has(root.attrs, inp.agg.Target) => root.attrs[inp.agg.Target] = ValueInt(0)

\* C32 as stated: a count event rule writes on the root, under target, the
\* integer number of events of the non-root spans whose name is the rule's
\* source and whose attributes satisfy the condition if there is one.
C32_EventCount ==
    phase = "event-done" /\ inp.agg.Aggregation = "count" => CountsOthers

\* what the code does give: the same whenever the root itself has no
\* matching event
EventCountWhenRootHasNone ==
    phase = "event-done" /\ inp.agg.Aggregation = "count"
        /\ ~RootMatches(inp.state, inp.agg) => CountsOthers

----------------------------------------------------------------------------
(* The triggers of a flush (Spec)                                           *)

\* the trace state under t has a reason to be flushed: the cap is reached,
\* the timeout has passed since first_seen, or Shutdown has been called
FlushDue(t) ==
    \/ Len(buffer[t].Spans) >= MaxSpansPerTrace
    \/ buffer[t].FirstSeen < now - Timeout
    \/ proc["shut"].pc # "none"

\* C33 as stated: whenever a goroutine takes a trace state out of the buffer
\* to flush it, the state has reached the cap, or is older than the timeout,
\* or the processor is shutting down.
C33_FlushesJustified ==
    [][\A p \in Procs :
          phase = "run" /\ TakesNext(p) /\ buffer[Head(proc[p].ids)] # NoTrace =>
              FlushDue(Head(proc[p].ids))]_vars

----------------------------------------------------------------------------
(* SpecRoot: determineRootSpan on the subtraces of every trace state of at  *)
(* most MaxRootLen spans of one service, with start timestamps              *)

MaxRootLen == 3
RootTimes == {0, 1}

RootShape == [parent : AssignParents, ts : RootTimes]

\* the spans are INTERNAL spans of one resource, so a subtrace is opened by
\* the spans without a parent in the trace only; entries sharing a span id
\* fall into one subtrace and may each be without a parent among its members
RootInit ==
    /\ phase = "root-input"
    /\ \E n \in 1..MaxRootLen : \E ids \in AssignIDSeqs(n) : \E f \in [1..n -> RootShape] :
          inp = [i \in 1..n |->
                    Entry(i, ids[i], f[i].parent, "INTERNAL", "resA", f[i].ts, NoAttr, NoAttr)]
    /\ out = Unassigned
    /\ Idle

\* flushTrace, processor.go:137-141: assignSubtraces, then determineRootSpan
\* on every subtrace
AssignRoots ==
    /\ phase = "root-input"
    /\ LET r == assignSubtraces([Spans |-> inp, FirstSeen |-> 0], AssignTraceID)
       IN  IF r.overflow
             THEN phase' = "root-crashed" /\ out' = out
             ELSE phase' = "root-done" /\ out' = {determineRootSpan(s) : s \in r.subtraces}
    /\ UNCHANGED <<inp, mvars>>

RootNext == AssignRoots

SpecRoot == RootInit /\ [][RootNext]_vars

\* the members of a subtrace whose parent id is empty or names no member
Candidates(s) ==
    {i \in DOMAIN s.Spans :
        s.Spans[i].parent = EmptyID \/ s.Spans[i].parent \notin IDsOf(s.Spans)}

\* C34: the root of every subtrace is a member whose parent id is empty or
\* names no member of the subtrace; no such member has a smaller start
\* timestamp, and none with the same start timestamp was inserted before it.
C34_RootSelection ==
    phase = "root-done" =>
        \A s \in out :
            /\ s.RootSpan \in Candidates(s)
            /\ \A c \in Candidates(s) :
                  \/ s.Spans[s.RootSpan].ts < s.Spans[c].ts
                  \/ s.Spans[s.RootSpan].ts = s.Spans[c].ts /\ s.RootSpan <= c

\* a subtrace of three candidates: a late one, then two with the same
\* earlier start; the first of the two is the root
C34_Witness ==
    /\ phase = "root-done"
    /\ \E s \in out :
          /\ Candidates(s) = {1, 2, 3}
          /\ s.Spans[1].ts = 1 /\ s.Spans[2].ts = 0 /\ s.Spans[3].ts = 0
          /\ s.RootSpan = 2

----------------------------------------------------------------------------
(* SpecTop: assignSubtraces and determineRootSpan on the trace states of    *)
(* SpecAssign                                                               *)

\* flushTrace, processor.go:137-141: assignSubtraces, then determineRootSpan
\* on every subtrace
AssignAndRoot ==
    /\ phase = "assign-input"
    /\ LET r == assignSubtraces([Spans |-> inp, FirstSeen |-> 0], AssignTraceID)
       IN  IF r.overflow
             THEN phase' = "top-crashed" /\ out' = out
             ELSE phase' = "top-done" /\ out' = {determineRootSpan(s) : s \in r.subtraces}
    /\ UNCHANGED <<inp, mvars>>

TopNext == AssignAndRoot

SpecTop == AssignInit /\ [][TopNext]_vars

\* C35: for a trace with distinct span ids on which assignSubtraces returns
\* (no parent cycle), every subtrace has exactly one member whose parent is
\* not a member of the subtrace, every other member's parent is a member,
\* and the chosen root is that one member.
C35_ParentClosedUniqueTop ==
    phase = "top-done" /\ DistinctSpanIDs(inp) =>
        \A s \in out :
            /\ Cardinality(Candidates(s)) = 1
            /\ \A i \in DOMAIN s.Spans :
                  i \notin Candidates(s) => s.Spans[i].parent \in IDsOf(s.Spans)
            /\ s.RootSpan \in Candidates(s)

\* three spans with distinct ids in two subtraces; the one of two members
\* has its child inserted before the parent that opened it
C35_Witness ==
    /\ phase = "top-done" /\ DistinctSpanIDs(inp) /\ Len(inp) = 3
    /\ Cardinality(out) = 2
    /\ \E s \in out :
          /\ Len(s.Spans) = 2 /\ s.RootSpan = 2
          /\ s.Spans[1].parent = s.Spans[2].id
          /\ s.Spans[2].parent # EmptyID

----------------------------------------------------------------------------
(* The number of subtraces (SpecAssign)                                     *)

\* the entries that open a subtrace: without a parent in the trace, or cut
\* off by the boundary rule from an entry that carries their parent id
Openers(spans) ==
    {i \in DOMAIN spans :
        \/ IsOrphan(spans, i)
        \/ \E j \in DOMAIN spans : IsParentOf(spans, j, i) /\ MustCut(spans[j], spans[i])}

\* as many subtraces as openers, no two openers in one subtrace
OnePerOpener ==
    /\ Cardinality(out.subtraces) = Cardinality(Openers(inp))
    /\ \A i, j \in Openers(inp) :
          i # j => HoldersOf(out.subtraces, inp[i].tok) # HoldersOf(out.subtraces, inp[j].tok)

\* C36 as stated: assignSubtraces returns as many subtraces as there are
\* spans that are orphans or roots or satisfy the boundary rule against
\* their parent, each of them in a subtrace of its own (so two entry spans
\* of one service called from one parent are in two subtraces).
C36_OnePerBoundaryCrossing ==
    phase = "assign-done" /\ ~out.overflow => OnePerOpener

\* C36 as amended: the same, for traces with pairwise distinct span ids.
C36_OnePerBoundaryCrossing_DistinctIDs ==
    phase = "assign-done" /\ ~out.overflow /\ DistinctSpanIDs(inp) => OnePerOpener

\* a root in one service and two SERVER children of it in another service
\* with one resource hash: three subtraces
C36_Witness ==
    /\ phase = "assign-done" /\ ~out.overflow /\ DistinctSpanIDs(inp) /\ Len(inp) = 3
    /\ \E r, i, j \in DOMAIN inp :
          /\ i # j /\ inp[r].parent = EmptyID
          /\ IsParentOf(inp, r, i) /\ IsParentOf(inp, r, j)
          /\ inp[i].res = inp[j].res /\ inp[i].res # inp[r].res
          /\ inp[i].kind = "SERVER" /\ inp[j].kind = "SERVER"
    /\ Cardinality(out.subtraces) = 3

----------------------------------------------------------------------------
(* SpecBuffer: the buffer alone, as its callers use it: Add, RemoveTrace    *)
(* and GetExpiredTraceIDs as time passes.  out keeps the times at which the *)
(* spans of the present trace state were inserted and the last scan.        *)

NoScan == [absent |-> TRUE]

BufInit ==
    /\ phase = "buffer"
    /\ inp = <<>>
    /\ out = [times |-> <<>>, scan |-> NoScan]
    /\ buffer = [t \in TraceIDs |-> NoTrace]
    /\ now = 0
    /\ nextTok = 0
    /\ proc = <<>> /\ fwd = <<>> /\ lastBatch = <<>> /\ dsErred = {}
    /\ crashed = FALSE /\ cfg = <<>>

\* Buffer.Add of one span
BufAdd(t, sh) ==
    /\ phase = "buffer"
    /\ nextTok < MaxInserts
    /\ buffer' = Add(buffer, t, Entry(nextTok + 1, sh.id, sh.parent, sh.kind, sh.res,
                                      sh.ts, sh.sid, sh.isRoot), now).traces
    /\ nextTok' = nextTok + 1
    /\ out' = [out EXCEPT !.times = Append(@, now)]
    /\ UNCHANGED <<phase, inp, now, proc, fwd, lastBatch, dsErred, crashed, cfg>>

\* Buffer.RemoveTrace
BufRemove(t) ==
    /\ phase = "buffer"
    /\ buffer[t] # NoTrace
    /\ buffer' = RemoveTrace(buffer, t).traces
    /\ out' = [out EXCEPT !.times = <<>>]
    /\ UNCHANGED <<phase, inp, now, nextTok, proc, fwd, lastBatch, dsErred, crashed, cfg>>

\* Buffer.GetExpiredTraceIDs
BufScan ==
    /\ phase = "buffer"
    /\ out' = [out EXCEPT !.scan = [at |-> now, times |-> out.times,
                                    ids |-> GetExpiredTraceIDs(buffer, now)]]
    /\ UNCHANGED <<phase, inp, buffer, now, nextTok, proc, fwd, lastBatch, dsErred, crashed, cfg>>

\* time passes
BufTick ==
    /\ phase = "buffer"
    /\ now < MaxTime
    /\ now' = now + 1
    /\ UNCHANGED <<phase, inp, out, buffer, nextTok, proc, fwd, lastBatch, dsErred, crashed, cfg>>

BufNext ==
    \/ \E t \in TraceIDs, sh \in SpanPool : BufAdd(t, sh)
    \/ \E t \in TraceIDs : BufRemove(t)
    \/ BufScan
    \/ BufTick

SpecBuffer == BufInit /\ [][BufNext]_vars

\* C37: first_seen of a trace state is the time its first span was inserted,
\* whatever was inserted into the state later, and GetExpiredTraceIDs
\* reports the trace as soon as the timeout has passed since that time.
C37_TimeoutFromFirstSpan ==
    phase = "buffer" =>
        \A t \in TraceIDs : buffer[t] # NoTrace =>
            /\ buffer[t].FirstSeen = out.times[1]
            /\ out.times[1] < now - Timeout => t \in GetExpiredTraceIDs(buffer, now)
            /\ out.scan # NoScan /\ out.scan.times = out.times /\ out.scan.at = now
                  /\ out.times[1] < now - Timeout => t \in out.scan.ids

\* a trace whose last span was inserted within the timeout is reported by
\* the scan, the timeout having passed since its first span
C37_Witness ==
    /\ phase = "buffer"
    /\ \E t \in TraceIDs :
          /\ buffer[t] # NoTrace /\ Len(out.times) >= 2
          /\ out.times[Len(out.times)] >= now - Timeout
          /\ out.times[1] < now - Timeout
          /\ out.scan # NoScan /\ out.scan.times = out.times /\ out.scan.at = now
          /\ t \in out.scan.ids

----------------------------------------------------------------------------
(* A refused batch (SpecDrain)                                              *)

\* entry k of the buffer as it was is neither buffered, nor in a flush in
\* progress, nor forwarded
GivenUp(k) ==
    /\ fwd[k] = 0 /\ HeldBy(k) = {}
    /\ \A t \in DOMAIN buffer : buffer[t] = NoTrace \/ k \notin ToksOf(buffer[t].Spans)

\* the state of every refused trace is gone from the buffer, no span was
\* handed downstream twice, and no span of a trace that was not refused is
\* given up
RefusedOnly ==
    /\ \A t \in dsErred : buffer[t] = NoTrace
    /\ \A k \in DOMAIN fwd : fwd[k] <= 1
    /\ ~crashed => \A k \in DOMAIN fwd : GivenUp(k) => TraceOf(k) \in dsErred

----------------------------------------------------------------------------
(* SpecBusy: the running processor on two trace ids, ConsumeTraces          *)
(* inserting while the sweeper and Shutdown flush                           *)

\* the span the upstream sends, again and again: a SERVER span without parent
BusyPool ==
    { [id |-> 1, parent |-> EmptyID, kind |-> "SERVER", res |-> "resA", ts |-> 0,
       sid |-> NoAttr, isRoot |-> NoAttr] }

BusyInit ==
    /\ phase = "run"
    /\ inp = <<>> /\ out = Unassigned
    /\ buffer = [t \in DrainTraceIDs |-> NoTrace]
    /\ now = 0
    /\ nextTok = 0
    /\ proc = [p \in Procs |-> Resting(CASE p = "cons" -> "idle"
                                         [] p = "sweep" -> "wait"
                                         [] p = "shut" -> "none")]
    /\ fwd = [k \in {} |-> 0]
    /\ lastBatch = NoBatch
    /\ dsErred = {}
    /\ crashed = FALSE
    /\ cfg = [errorMode |-> "ignore"]

BusyNext ==
    \/ \E t \in DrainTraceIDs, sh \in BusyPool : ConsumeAdd(t, sh)
    \/ ConsumeInserted
    \/ \E p \in Procs : FlushTake(p)
    \/ \E p \in Procs : \E s \in proc[p].pending : \E err \in BOOLEAN : Forward(p, s, err)
    \/ ConsumeReturn
    \/ ConsumeCallerResumes
    \/ SweepTick
    \/ SweepDone
    \/ SweepExit
    \/ ShutdownClose
    \/ ShutdownDrain
    \/ ShutdownReturn
    \/ Tick

SpecBusy == BusyInit /\ [][BusyNext]_vars

\* goroutine p is inside flushTrace, with batches still to hand downstream
Forwarding(p) == proc[p].pc = "flushing" /\ proc[p].pending # {}

----------------------------------------------------------------------------
(* SpecApply: Aggregator.Apply on every labelled subtrace of at most        *)
(* MaxMembers spans and every pair of rule lists of at most MaxRules rules  *)

MaxRules == 2

\* the members other than the root: attributes and events
ApplyMembers ==
    { AggSpan(0, MapOf({}), <<>>),
      AggSpan(0, MapOf({<<"v", ValueInt(2)>>, <<"c", ValueStr("x")>>}),
              <<Event("exception", PaymentFailed)>>),
      AggSpan(0, MapOf({<<"v", ValueInt(1)>>}),
              <<Event("exception", MapOf({<<"exception.type", ValueStr("Timeout")>>}))>>) }

\* the root, labelled by flushTrace before Apply; one already carries "t"
ApplyRoots ==
    { AggSpan(0, MapOf({<<IsRootKey, ValueBool(TRUE)>>}), <<>>),
      AggSpan(0, MapOf({<<IsRootKey, ValueBool(TRUE)>>, <<"t", ValueStr("old")>>}),
              <<Event("exception", PaymentFailed)>>) }

\* attribute_aggregations: two rules with target "t", one with target "u"
ApplyAttrRules ==
    { AttributeAggregation("count", "", <<>>, "t", 0),
      AttributeAggregation("sum", "v", HasC, "t", 0),
      AttributeAggregation("any", "v", <<>>, "u", 0) }

\* event_aggregations: count rules with target "t" and "u"
ApplyEventRules ==
    { EventAggregation("count", "exception", IsPaymentFailed, "t", 0),
      EventAggregation("count", "exception", <<>>, "u", 0) }

\* the lists of at most MaxRules rules of a set
ListsOf(S) == UNION {[1..n -> S] : n \in 0..MaxRules}

ApplyInit ==
    /\ phase = "apply-input"
    /\ \E n \in 1..MaxMembers : \E r \in 1..n : \E root \in ApplyRoots :
       \E f \in [1..n -> ApplyMembers] :
       \E attrAggs \in ListsOf(ApplyAttrRules) : \E eventAggs \in ListsOf(ApplyEventRules) :
          /\ f[r] = AggSpan(0, MapOf({}), <<>>)
          /\ inp = [state |-> [Spans |-> [i \in 1..n |->
                                  [(IF i = r THEN root ELSE f[i]) EXCEPT !.id = i]],
                               RootSpan |-> r],
                    rules |-> [attrAggs |-> attrAggs, eventAggs |-> eventAggs]]
    /\ out = Unassigned
    /\ Idle

ApplyRules ==
    /\ phase = "apply-input"
    /\ phase' = "apply-done"
    /\ out' = Apply(inp.state, inp.rules)
    /\ UNCHANGED <<inp, mvars>>

ApplyNext == ApplyRules

SpecApply == ApplyInit /\ [][ApplyNext]_vars

\* the subtrace with the target attribute taken off its root
WithoutTarget(state, target) ==
    LET old == state.Spans[state.RootSpan].attrs
    IN  [state EXCEPT !.Spans[state.RootSpan].attrs =
            [k \in DOMAIN old \ {target} |-> old[k]]]

\* what one rule, applied alone to the subtrace, writes to its target on the
\* root: the Empty value when it produces no result
WrittenByAttr(state, agg) ==
    LET s == applyAttributeAggregation(WithoutTarget(state, agg.Target), agg)
    IN  Get(s.Spans[s.RootSpan].attrs, agg.Target)

WrittenByEvent(state, agg) ==
    LET s == applyEventAggregation(WithoutTarget(state, agg.Target), agg)
    IN  Get(s.Spans[s.RootSpan].attrs, agg.Target)

\* what the rules write to the target, in the order the claim gives: the
\* attribute rules in list order, then the event rules in list order
WritesTo(state, rules, target) ==
    [k \in 1..(Len(rules.attrAggs) + Len(rules.eventAggs)) |->
        LET na == Len(rules.attrAggs)
        IN  IF k <= na
              THEN (IF rules.attrAggs[k].Target = target
                      THEN WrittenByAttr(state, rules.attrAggs[k]) ELSE ValueEmpty)
              ELSE (IF rules.eventAggs[k - na].Target = target
                      THEN WrittenByEvent(state, rules.eventAggs[k - na]) ELSE ValueEmpty)]

\* the last value written, or the value the root had when no rule wrote
LastWritten(state, rules, target) ==
    LET w == WritesTo(state, rules, target)
        ks == {k \in DOMAIN w : w[k].type # "Empty"}
    IN  IF ks = {} THEN Get(state.Spans[state.RootSpan].attrs, target)
        ELSE w[CHOOSE k \in ks : \A j \in ks : j <= k]

\* C40: after Apply, every target attribute on the root holds the value of
\* the last rule that produced a result for it, the attribute rules counted
\* in list order and every event rule after every attribute rule; a target
\* no rule produced a result for is as it was.
C40_RuleOrderDecidesSharedTargets ==
    phase = "apply-done" =>
        \A target \in {"t", "u"} :
            Get(out.Spans[out.RootSpan].attrs, target)
                = LastWritten(inp.state, inp.rules, target)

\* an attribute rule and an event rule both produced a result for "t",
\* different ones, and the event rule's is on the root
C40_Witness ==
    /\ phase = "apply-done"
    /\ \E i \in DOMAIN inp.rules.attrAggs, j \in DOMAIN inp.rules.eventAggs :
          /\ inp.rules.attrAggs[i].Target = "t" /\ inp.rules.eventAggs[j].Target = "t"
          /\ WrittenByAttr(inp.state, inp.rules.attrAggs[i]).type # "Empty"
          /\ WrittenByEvent(inp.state, inp.rules.eventAggs[j]).type # "Empty"
          /\ WrittenByAttr(inp.state, inp.rules.attrAggs[i])
                # WrittenByEvent(inp.state, inp.rules.eventAggs[j])
          /\ out.Spans[out.RootSpan].attrs["t"]
                = WrittenByEvent(inp.state, inp.rules.eventAggs[j])
    /\ Len(inp.rules.attrAggs) = 2
    /\ inp.rules.attrAggs[1].Target = "t" /\ inp.rules.attrAggs[2].Target = "t"
    /\ inp.rules.attrAggs[1] # inp.rules.attrAggs[2]

====
